---- MODULE Spec2Model ----
(***************************************************************************)
(* A model of meshmode's array contexts (meshmode/array_context.py): the   *)
(* eager PyOpenCLArrayContext with its per-kernel-name wait-event queues,  *)
(* the lazy PytatoArrayContext, the fake numpy namespace and the kernel    *)
(* cache.  The device is modelled as one in-order command queue per        *)
(* context that completes the events of dispatched work asynchronously.    *)
(***************************************************************************)
EXTENDS Integers, Sequences, FiniteSets, TLC

\* ------------------------------------------------------------------ bounds

\* number of events (completion tokens) the device hands out in one behaviour
MaxDispatch == 11

\* largest explicitly configured wait_event_queue_length
MaxConfiguredLength == 2

\* number of events dispatched in the array scenarios
MaxArrayEvents == 2

\* largest depth of a graph of derived nodes
MaxDepth == 2

\* largest number of axes of an array
MaxRank == 2

\* number of distinct array contents
NumValues == 3

\* number of kernel objects the kernel caches build in one behaviour
MaxObjects == 2

\* number of events dispatched in the np-namespace and kernel-cache scenarios
MaxNpEvents == 1

\* number of calls of a compiled operator that execute its program
MaxOperatorCalls == 2

\* number of times the element shrink is applied while the node coordinates
\* stay integers
MaxShrinks == 2

\* ------------------------------------------------------- python constants

\* wait_event_queue_length=None: "not configured"
PyNone == -2

\* wait_event_queue_length=False: the wait-queue is disabled
PyFalse == -1

\* the default wait_event_queue_length
DefaultWaitEventQueueLength == 10

\* local size of the inner-iname split
InnerSplitLength == 16

Range(s) == {s[i] : i \in DOMAIN s}

\* a python dict: a function on the keys that were set
EmptyDict == << >>

DictSet(d, k, v) == [x \in (DOMAIN d) \cup {k} |-> IF x = k THEN v ELSE d[x]]

DictGet(d, k, default) == IF k \in DOMAIN d THEN d[k] ELSE default

\* --------------------------------------------------------------- contexts

EagerCtx == "eager"

LazyCtx == "lazy"

Contexts == {EagerCtx, LazyCtx}

\* each context owns one command queue; "none" is the queue of a frozen array
QueueOf(ctx) == IF ctx = EagerCtx THEN "q_eager" ELSE "q_lazy"

Queues == {QueueOf(c) : c \in Contexts}

NoQueue == "none"

\* --------------------------------------------------------- loopy programs

\* the iname "i%d" % i
IName(i) == <<"i", i>>

\* make_loopy_program: a kernel with return_dict and no_numpy set
make_loopy_program(name, inames, c_name, nargs) ==
    [name |-> name, inames |-> inames, c_name |-> c_name, nargs |-> nargs,
     return_dict |-> TRUE, no_numpy |-> TRUE, tags |-> << >>, split |-> << >>,
     obj |-> 0]

\* a kernel built by lp.make_kernel directly, with the given options
RawKernel(name, inames, return_dict, no_numpy) ==
    [name |-> name, inames |-> inames, c_name |-> "user", nargs |-> 1,
     return_dict |-> return_dict, no_numpy |-> no_numpy,
     tags |-> << >>, split |-> << >>, obj |-> 0]

\* no kernel
NoProgram == make_loopy_program(<< >>, {}, "none", 0)

\* the kernels dispatched directly: two elementwise kernels of one name (rank
\* 1 and rank 2), a two-level user kernel, a kernel without a recognized
\* iname pattern, and one built without the required options
SinRank1 == make_loopy_program(<<"actx_special_", "sin">>, {IName(0)}, "sin", 1)

SinRank2 == make_loopy_program(<<"actx_special_", "sin">>, {IName(0), IName(1)}, "sin", 1)

ElDofKernel == make_loopy_program(<<"mm_actx_kernel">>, {<<"iel">>, <<"idof">>}, "user", 1)

FlatKernel == make_loopy_program(<<"mm_actx_kernel">>, {<<"k">>}, "user", 1)

NoOptionsKernel == RawKernel(<<"mm_actx_kernel">>, {<<"iel">>, <<"idof">>}, FALSE, TRUE)

UserPrograms == {SinRank1, SinRank2, ElDofKernel, FlatKernel, NoOptionsKernel}

\* the kernels of the wait-queue scenarios
QueuePrograms == {SinRank1, ElDofKernel, NoOptionsKernel}

\* ---------------------------------------------------------- array values

\* the content of an array is one value of a small domain
Values == 0 .. (NumValues - 1)

\* what the device function c_name computes (an arbitrary fixed table; the
\* functions differ from each other and from the identity)
Apply(c_name, v) ==
    CASE c_name = "sin"  -> (v + 1) % NumValues
      [] c_name = "exp"  -> (v + 2) % NumValues
      [] c_name = "asin" -> (2 * v + 1) % NumValues
      [] OTHER           -> v

\* ------------------------------------------------------------------ state

VARIABLES
    wait_event_queue_length,          \* PyOpenCLArrayContext._wait_event_queue_length
    kernel_name_to_wait_event_queue,  \* dict: kernel name -> list of events
    transform_cache,                  \* memo of transform_loopy_program
    next_evt,                         \* the next event the device hands out
    inflight,                         \* per queue: events not yet complete, in order
    pc,                               \* "idle", or "wait": the control thread blocks
    waiting_on,                       \* the events the blocked call waits on
    cont,                             \* what the blocked call does once they complete
    ret,                              \* what the last call returned or raised
    arrays,                           \* the caller's array variables
    scalar_func_cache,                \* per context: memo of _get_scalar_func_loopy_program
    next_obj,                         \* identity of the next kernel object built
    ns,                               \* PytatoArrayContext.ns: the names registered
    host,                             \* the content of the caller's numpy array
    operator,                         \* the callable the last compile returned
    visualizer,                       \* the Visualizer: its settings and memoized nodes
    files                             \* the file system: file name -> content

qvars == <<wait_event_queue_length, kernel_name_to_wait_event_queue, transform_cache>>

devvars == <<next_evt, inflight>>

ctlvars == <<pc, waiting_on, cont>>

\* what only the visualizer's writers change
visvars == <<visualizer, files>>

\* what only compile changes, and the caller's data
nsvars == <<ns, host, operator, visvars>>

ctxvars == <<scalar_func_cache, next_obj, nsvars>>

vars == <<qvars, devvars, ctlvars, ret, arrays, ctxvars>>

Complete(evt) == \A q \in Queues : evt \notin Range(inflight[q])

\* ----------------------------------------------------------- array objects

\* no array: an unset variable, or the result of a call that raised
NoArray ==
    [kind |-> "none", queue |-> NoQueue, content |-> 0, events |-> {},
     rank |-> 0, fn |-> "none", arg |-> << >>, name |-> << >>, ns |-> "none"]

\* a pyopencl.array.Array: device data, the events of the work that writes
\* it, and the queue it is attached to (NoQueue: frozen)
ClArray(queue, content, events, rank) ==
    [NoArray EXCEPT !.kind = "cl", !.queue = queue, !.content = content,
                    !.events = events, !.rank = rank]

\* a numpy.ndarray
HostArray(content, rank) ==
    [NoArray EXCEPT !.kind = "numpy", !.content = content, !.rank = rank]

\* pt.make_data_wrapper(ns, cl_array): a node that holds a device array
DataWrapper(namespace, data) ==
    [data EXCEPT !.kind = "datawrapper", !.ns = namespace]

\* DataWrapper.data
DataOf(node) == [node EXCEPT !.kind = "cl", !.ns = "none"]

\* pt.make_placeholder(ns, shape, dtype, name)
Placeholder(namespace, name, rank) ==
    [NoArray EXCEPT !.kind = "placeholder", !.name = name, !.rank = rank,
                    !.ns = namespace]

\* the output "out" of a kernel spliced into the graph: out = fn(arg)
Derived(namespace, fn, arg) ==
    [NoArray EXCEPT !.kind = "derived", !.fn = fn, !.arg = <<arg>>,
                    !.rank = arg.rank, !.ns = namespace]

IsCl(a) == a.kind = "cl"

IsPtArray(a) == a.kind \in {"placeholder", "datawrapper", "derived"}

IsFrozen(a) == a.kind = "cl" /\ a.queue = NoQueue

\* the events of an array that are not complete
Pending(a) == {e \in a.events : ~Complete(e)}

Undefined == -1

\* the value the program lowered from node a computes when its placeholders
\* are bound as in env (a dict: name -> content); Undefined when a depends on
\* a placeholder that env does not bind
RECURSIVE Exec(_, _)
Exec(a, env) ==
    CASE a.kind \in {"cl", "datawrapper", "numpy"} -> a.content
      [] a.kind = "derived" ->
            LET v == Exec(a.arg[1], env)
            IN  IF v = Undefined THEN Undefined ELSE Apply(a.fn, v)
      [] a.kind = "placeholder" -> DictGet(env, a.name, Undefined)
      [] OTHER -> Undefined

\* the value a node evaluates to with no placeholder bound
Eval(a) == Exec(a, EmptyDict)

RECURSIVE Depth(_)
Depth(a) == IF a.kind = "derived" THEN 1 + Depth(a.arg[1]) ELSE 0

\* a thawed array is bound to the context that made it and may not be used
\* with another one; a frozen array may be handed to any context
UsableIn(ctx, a) ==
    /\ a.kind # "none"
    /\ (IsCl(a) /\ a.queue # NoQueue) => a.queue = QueueOf(ctx)
    /\ IsPtArray(a) => a.ns = ctx

\* the progress of a freeze / thaw / freeze round trip in one context: the
\* first frozen array and the array of the last step
NoChain == [stage |-> 0, ctx |-> "none", first |-> NoArray, last |-> NoArray]

\* no callable
NoOperator ==
    [kind |-> "none", f |-> "none", pytato_program |-> EmptyDict,
     input_spec |-> << >>, output_spec |-> << >>]

\* what the last call did: the operation, its context, the error it raised,
\* the event of the work it enqueued, the events it waited on, its array
\* argument and result, and for a call through the np namespace or the kernel
\* cache the name looked up, whether the lookup warned of a deprecated name,
\* the cache key and the kernel the cache returned; for compile and for a
\* compiled operator the function given, the callable, the nested input and
\* the nested output; and how often the call called the traced function, the
\* graph lowering (pt.generate_loopy) and a kernel or lowered program; and
\* the variable the caller assigns the result to (0: none)
NoRet ==
    [op |-> "none", ctx |-> "none", raised |-> "none", evt |-> 0, waited |-> {},
     arg |-> NoArray, res |-> NoArray, warned |-> FALSE, chain |-> NoChain,
     name |-> "none", key |-> << >>, prog |-> NoProgram,
     f |-> "none", fields |-> << >>, out |-> << >>, callable |-> NoOperator,
     calls |-> [f |-> 0, lower |-> 0, run |-> 0], dest |-> 0, got |-> "none"]

\* the round trip after the call r: a successful freeze starts it (or ends
\* it, when it freezes the thawed array of stage 2), a thaw of the frozen
\* array continues it, a step that raises breaks it (stage -1)
NextChain(chain, r) ==
    LET continues == r.ctx = chain.ctx /\ r.arg = chain.last
    IN  CASE r.op = "freeze" /\ chain.stage = 2 /\ continues ->
                IF r.raised = "none"
                THEN [chain EXCEPT !.stage = 3, !.last = r.res]
                ELSE [chain EXCEPT !.stage = -1]
          [] r.op = "freeze" /\ ~(chain.stage = 2 /\ continues) /\ r.raised = "none" ->
                [stage |-> 1, ctx |-> r.ctx, first |-> r.res, last |-> r.res]
          [] r.op = "thaw" /\ chain.stage = 1 /\ continues ->
                IF r.raised = "none"
                THEN [chain EXCEPT !.stage = 2, !.last = r.res]
                ELSE [chain EXCEPT !.stage = -1]
          [] OTHER -> chain

\* the record of a call that returns or raises now
Return(r) == [r EXCEPT !.chain = NextChain(ret.chain, r)]

\* what a blocked call does when it returns: store its result, return
Cont(r, out) == [ret |-> r, out |-> out]

NoCont == Cont(NoRet, 0)

Store(out, value) == IF out = 0 THEN arrays ELSE [arrays EXCEPT ![out] = value]

\* the caller keeps one array variable; a result replaces it or is dropped
Slots == {1}

\* ------------------------------------------------------------ Visualizer

\* Node coordinates are integers, an array holds for each element the
\* coordinates of its nodes, and the element shrink factor is counted in
\* halves: 2 is the factor 1, 1 is the factor 1/2.

\* the memo of _vis_nodes before its first call
NotComputed == << >>

\* vis_discr.groups[0].view(vis_discr.nodes()[i]): two elements of two nodes
VisDiscrNodes ==
    LET w == 2 ^ (MaxShrinks + 1)
    IN  << <<0, w>>, <<w, 2 * w>> >>

\* what __init__ stores: no element_shrink_factor means the factor 1
Visualizer(element_shrink_factor, ngroups) ==
    [element_shrink_factor |->
         IF element_shrink_factor = PyNone THEN 2 ELSE element_shrink_factor,
     ngroups |-> ngroups,
     vis_nodes |-> NotComputed]

\* np.mean(nodes_view, axis=-1): the centre of each element
ElCenters(nodes_view) ==
    [el \in DOMAIN nodes_view |->
       LET x == nodes_view[el]
           sum[n \in 0 .. Len(x)] == IF n = 0 THEN 0 ELSE sum[n - 1] + x[n]
       IN  sum[Len(x)] \div Len(x)]

\* factor * nodes_view + (1 - factor) * el_centers[:, :, np.newaxis]
ShrinkElements(nodes_view, factor) ==
    LET el_centers == ElCenters(nodes_view)
    IN  [el \in DOMAIN nodes_view |->
           [i \in DOMAIN nodes_view[el] |->
              (factor * nodes_view[el][i] + (2 - factor) * el_centers[el]) \div 2]]

\* the division by 2 above is exact
ShrinkExact(nodes_view, factor) ==
    \A el \in DOMAIN nodes_view : \A i \in DOMAIN nodes_view[el] :
        (factor * nodes_view[el][i] + (2 - factor) * ElCenters(nodes_view)[el]) % 2 = 0

\* A file is a record of the kind of grid it holds, the points and the data.

WriteWithoutLooking(file_name, overwrite, content, call) ==
    /\ ret' = Return([call EXCEPT !.out = content.points])
    /\ files' = DictSet(files, file_name, content)

\* os.path.exists, os.remove, open(file_name, "w") and write: the call
\* replaces the file only when overwrite is set
WriteNewFile(file_name, overwrite, content, call) ==
    IF file_name \in DOMAIN files /\ ~overwrite
    THEN /\ ret' = Return([call EXCEPT !.raised = "FileExistsError"])
         /\ files' = files
    ELSE LET removed == [f \in (DOMAIN files) \ {file_name} |-> files[f]]
         IN  /\ ret' = Return([call EXCEPT !.out = content.points])
             /\ files' = DictSet(removed, file_name, content)

\* Visualizer.write_vtk_file(file_name, [("f", field)], overwrite=overwrite):
\* _vis_nodes refuses several groups and memoizes the array it returns,
\* _resample_to_numpy refuses a number, the shrink assigns to a view of the
\* memoized array, and the file is looked at last
WriteVtkFile(file_name, field, overwrite) ==
    LET call == [NoRet EXCEPT !.op = "write_vtk_file", !.name = file_name]
        memo == visualizer.vis_nodes
        nodes == IF memo = NotComputed THEN VisDiscrNodes ELSE memo
        factor == visualizer.element_shrink_factor
        shrunk == IF factor # 2 THEN ShrinkElements(nodes, factor) ELSE nodes
    IN  /\ pc = "idle"
        /\ IF visualizer.ngroups # 1
           THEN /\ ret' = Return([call EXCEPT !.raised = "NotImplementedError"])
                /\ UNCHANGED visvars
           ELSE IF field.kind = "number"
           THEN /\ ret' = Return([call EXCEPT !.raised = "NotImplementedError"])
                /\ visualizer' = [visualizer EXCEPT !.vis_nodes = nodes]
                /\ files' = files
           ELSE /\ ShrinkExact(nodes, factor)
                /\ visualizer' = [visualizer EXCEPT !.vis_nodes = shrunk]
                /\ WriteNewFile(file_name, overwrite,
                                [kind |-> "vtk", points |-> shrunk,
                                 data |-> <<field.data>>], call)
        /\ UNCHANGED <<qvars, devvars, ctlvars, arrays, scalar_func_cache, next_obj,
                       ns, host, operator>>

\* write_nodal_adjacency_vtk_file(file_name, mesh, overwrite=overwrite) for
\* a mesh of two neighbouring elements: the points are the centroids of the
\* elements, the cells the connections
WriteNodalAdjacencyVtkFile(file_name, overwrite) ==
    LET call == [NoRet EXCEPT !.op = "write_nodal_adjacency_vtk_file",
                              !.name = file_name]
        vertices == << <<0, 2>>, <<2, 4>> >>
        centroids == [el \in DOMAIN vertices |-> <<ElCenters(vertices)[el]>>]
    IN  /\ pc = "idle"
        /\ WriteNewFile(file_name, overwrite,
                        [kind |-> "adjacency", points |-> centroids,
                         data |-> <<1, 2, 2, 1>>], call)
        /\ UNCHANGED <<qvars, devvars, ctlvars, arrays, scalar_func_cache, next_obj,
                       ns, host, operator, visualizer>>

\* ------------------------------------------- PyOpenCLArrayContext.__init__

\* the wait_event_queue_length the constructor stores for its argument
InitQueueLength(arg) == IF arg = PyNone THEN DefaultWaitEventQueueLength ELSE arg

ConstructorArgs == {PyNone, PyFalse} \cup (0 .. MaxConfiguredLength)

\* ------------------------- PyOpenCLArrayContext.transform_loopy_program

OptionsOk(program) == program.return_dict /\ program.no_numpy

InnerName(iname) == iname \o <<"inner">>

OuterName(iname) == iname \o <<"outer">>

split_iname(program, iname, length, inner_tag) ==
    [program EXCEPT
        !.inames = (@ \ {iname}) \cup {InnerName(iname), OuterName(iname)},
        !.split = [iname |-> iname, length |-> length],
        !.tags = DictSet(@, InnerName(iname), inner_tag)]

tag_inames(program, iname, tag) == [program EXCEPT !.tags = DictSet(@, iname, tag)]

\* the tiling that takes i0 for the outer iname whenever there is one
TileProgramOuterI0(program) ==
    LET all_inames == program.inames
        outer_iname == IF IName(0) \in all_inames THEN IName(0)
                       ELSE IF <<"iel">> \in all_inames THEN <<"iel">>
                       ELSE << >>
        inner_iname == IF outer_iname = IName(0) /\ IName(1) \in all_inames
                       THEN IName(1)
                       ELSE IF outer_iname = <<"iel">> /\ <<"idof">> \in all_inames
                       THEN <<"idof">>
                       ELSE << >>
        split == IF inner_iname # << >>
                 THEN split_iname(program, inner_iname, InnerSplitLength, "l.0")
                 ELSE program
    IN  IF outer_iname = << >> THEN program
        ELSE tag_inames(split, outer_iname, "g.0")

\* the body of transform_loopy_program after the options check
TileProgram(program) ==
    LET all_inames == program.inames
        outer_iname == IF <<"iel">> \notin all_inames /\ IName(0) \in all_inames
                       THEN IName(0)
                       ELSE IF <<"iel">> \in all_inames THEN <<"iel">>
                       ELSE << >>
        inner_iname == IF outer_iname = IName(0) /\ IName(1) \in all_inames
                       THEN IName(1)
                       ELSE IF outer_iname = <<"iel">> /\ <<"idof">> \in all_inames
                       THEN <<"idof">>
                       ELSE << >>
        split == IF inner_iname # << >>
                 THEN split_iname(program, inner_iname, InnerSplitLength, "l.0")
                 ELSE program
    IN  IF outer_iname = << >> THEN program
        ELSE tag_inames(split, outer_iname, "g.0")

\* transform_loopy_program refusing a kernel it cannot tile
transform_loopy_program_or_refuse(cache, program) ==
    IF program \in DOMAIN cache
    THEN [raised |-> "none", program |-> cache[program], cache |-> cache]
    ELSE IF ~OptionsOk(program) \/ TileProgram(program) = program
    THEN [raised |-> "ValueError", program |-> program, cache |-> cache]
    ELSE [raised |-> "none", program |-> TileProgram(program),
          cache |-> DictSet(cache, program, TileProgram(program))]

\* transform_loopy_program without memoize_method
transform_loopy_program_each_time(cache, program) ==
    IF ~OptionsOk(program)
    THEN [raised |-> "ValueError", program |-> program, cache |-> cache]
    ELSE [raised |-> "none", program |-> TileProgram(program), cache |-> cache]

\* transform_loopy_program with its memo: what it raises, the program it
\* returns, and the memo afterwards (an exception is not memoized)
transform_loopy_program(cache, program) ==
    IF program \in DOMAIN cache
    THEN [raised |-> "none", program |-> cache[program], cache |-> cache]
    ELSE IF ~OptionsOk(program)
    THEN [raised |-> "ValueError", program |-> program, cache |-> cache]
    ELSE [raised |-> "none", program |-> TileProgram(program),
          cache |-> DictSet(cache, program, TileProgram(program))]

\* ------------------------------------- PyOpenCLArrayContext.call_loopy

\* off by one: the queue may grow one event beyond the bound before a wait
QueueTooLongLate(wait_event_queue, length) == Len(wait_event_queue) > length + 1

\* "len(wait_event_queue) > self._wait_event_queue_length"
QueueTooLong(wait_event_queue, length) == Len(wait_event_queue) > length

\* the bookkeeping without the test for False, which python compares as 0
RecordEventUnlessNone(queues, length, name, evt) ==
    LET bound == IF length = PyFalse THEN 0 ELSE length
        wait_event_queue == Append(DictGet(queues, name, << >>), evt)
    IN  IF QueueTooLong(wait_event_queue, bound)
        THEN [queues |-> DictSet(queues, name, Tail(wait_event_queue)),
              wait |-> {Head(wait_event_queue)}]
        ELSE [queues |-> DictSet(queues, name, wait_event_queue), wait |-> {}]

\* the bookkeeping with one queue for the kernels of every name
RecordEventInOneQueue(queues, length, name, evt) ==
    IF length = PyFalse
    THEN [queues |-> queues, wait |-> {}]
    ELSE LET wait_event_queue == Append(DictGet(queues, <<"all">>, << >>), evt)
         IN  IF QueueTooLong(wait_event_queue, length)
             THEN [queues |-> DictSet(queues, <<"all">>, Tail(wait_event_queue)),
                   wait |-> {Head(wait_event_queue)}]
             ELSE [queues |-> DictSet(queues, <<"all">>, wait_event_queue),
                   wait |-> {}]

\* the bookkeeping switched off by every falsy length, 0 included
RecordEventUnlessFalsy(queues, length, name, evt) ==
    IF length = PyFalse \/ length = 0
    THEN [queues |-> queues, wait |-> {}]
    ELSE LET wait_event_queue == Append(DictGet(queues, name, << >>), evt)
         IN  IF QueueTooLong(wait_event_queue, length)
             THEN [queues |-> DictSet(queues, name, Tail(wait_event_queue)),
                   wait |-> {Head(wait_event_queue)}]
             ELSE [queues |-> DictSet(queues, name, wait_event_queue),
                   wait |-> {}]

\* the bookkeeping that waits on the oldest event and keeps it queued
RecordEventKeepWaited(queues, length, name, evt) ==
    IF length = PyFalse
    THEN [queues |-> queues, wait |-> {}]
    ELSE LET wait_event_queue == Append(DictGet(queues, name, << >>), evt)
         IN  [queues |-> DictSet(queues, name, wait_event_queue),
              wait |-> IF QueueTooLong(wait_event_queue, length)
                       THEN {Head(wait_event_queue)} ELSE {}]

\* the bookkeeping that pops the newest event
RecordEventPopNewest(queues, length, name, evt) ==
    IF length = PyFalse
    THEN [queues |-> queues, wait |-> {}]
    ELSE LET wait_event_queue == Append(DictGet(queues, name, << >>), evt)
         IN  IF QueueTooLong(wait_event_queue, length)
             THEN [queues |-> DictSet(queues, name, DictGet(queues, name, << >>)),
                   wait |-> {evt}]
             ELSE [queues |-> DictSet(queues, name, wait_event_queue),
                   wait |-> {}]

\* the wait-queue bookkeeping after a dispatch that returned evt: the dict
\* afterwards and the events popped and waited on
RecordEvent(queues, length, name, evt) ==
    IF length = PyFalse
    THEN [queues |-> queues, wait |-> {}]
    ELSE LET wait_event_queue == Append(DictGet(queues, name, << >>), evt)
         IN  IF QueueTooLong(wait_event_queue, length)
             THEN [queues |-> DictSet(queues, name, Tail(wait_event_queue)),
                   wait |-> {Head(wait_event_queue)}]
             ELSE [queues |-> DictSet(queues, name, wait_event_queue),
                   wait |-> {}]

\* the array "out" of a kernel run on the eager queue with inp0 = a, written
\* by the work that completes with evt
KernelOutput(program, a, evt) ==
    ClArray(QueueOf(EagerCtx), Apply(program.c_name, a.content), {evt}, a.rank)

\* an exception that leaves call_loopy after one more dispatch
PropagateAfterRetry(r) ==
    /\ ret' = Return([r EXCEPT !.calls.run = @ + 1])
    /\ next_evt' = next_evt + 1
    /\ inflight' = [inflight EXCEPT ![QueueOf(EagerCtx)] = Append(@, next_evt)]
    /\ UNCHANGED <<wait_event_queue_length, kernel_name_to_wait_event_queue,
                   ctlvars, arrays>>

\* an exception raised in call_loopy leaves it at once: nothing catches it
Propagate(r) ==
    /\ ret' = Return(r)
    /\ UNCHANGED <<wait_event_queue_length, kernel_name_to_wait_event_queue,
                   devvars, ctlvars, arrays>>

\* call_loopy(program, inp0=arrays[inp]): transform, dispatch, record the
\* event, wait if the queue of the kernel's name got too long, return the
\* output array.  inp = 0 stands for a call on scalar arguments only; out = 0
\* for a caller that drops the output.  The kernel invocation itself belongs
\* to loopy: dispatch_ok is whether it accepts the arguments (it never accepts
\* an argument that is no device array).
EagerDispatch(r0, program, inp, out, dispatch_ok) ==
    /\ pc = "idle"
    /\ inp # 0 => UsableIn(EagerCtx, arrays[inp])
    /\ LET t == transform_loopy_program(transform_cache, program)
           evt == next_evt
           rec == RecordEvent(kernel_name_to_wait_event_queue,
                              wait_event_queue_length, t.program.name, evt)
           a == IF inp = 0 THEN NoArray ELSE arrays[inp]
           result == IF inp = 0 THEN ClArray(QueueOf(EagerCtx), 0, {evt}, 1)
                     ELSE KernelOutput(t.program, a, evt)
           call == [r0 EXCEPT !.op = "call_loopy", !.ctx = EagerCtx, !.arg = a,
                              !.prog = program, !.dest = out]
           tried == [call EXCEPT !.calls.run = 1]
           done == Return([tried EXCEPT !.evt = evt, !.waited = rec.wait,
                                        !.res = result])
       IN  IF t.raised # "none"
           THEN /\ transform_cache' = t.cache
                /\ Propagate([call EXCEPT !.raised = t.raised])
           ELSE IF ~dispatch_ok \/ (inp # 0 /\ ~IsCl(a))
           THEN /\ transform_cache' = t.cache
                /\ Propagate([tried EXCEPT !.raised = "DispatchError"])
           ELSE /\ transform_cache' = t.cache
                /\ next_evt' = next_evt + 1
                /\ inflight' = [inflight EXCEPT
                                  ![QueueOf(EagerCtx)] = Append(@, evt)]
                /\ kernel_name_to_wait_event_queue' = rec.queues
                /\ IF rec.wait = {}
                   THEN /\ ret' = done
                        /\ arrays' = Store(out, result)
                        /\ UNCHANGED ctlvars
                   ELSE /\ pc' = "wait"
                        /\ waiting_on' = rec.wait
                        /\ cont' = Cont(done, out)
                        /\ UNCHANGED <<ret, arrays>>
                /\ UNCHANGED wait_event_queue_length

\* a direct call of call_loopy
EagerCallLoopy(program, inp, out, dispatch_ok) ==
    /\ EagerDispatch(NoRet, program, inp, out, dispatch_ok)
    /\ UNCHANGED ctxvars

\* a wait that gives up: the blocked call returns with the event incomplete
WaitReturnOnTimeout ==
    /\ pc = "wait"
    /\ pc' = "idle"
    /\ waiting_on' = {}
    /\ ret' = [cont.ret EXCEPT !.raised = "TimeoutError"]
    /\ cont' = NoCont
    /\ UNCHANGED <<qvars, devvars, arrays, ctxvars>>

\* the blocked call returns once every event it waits on is complete
WaitReturn ==
    /\ pc = "wait"
    /\ \A evt \in waiting_on : Complete(evt)
    /\ pc' = "idle"
    /\ waiting_on' = {}
    /\ ret' = cont.ret
    /\ arrays' = Store(cont.out, cont.ret.res)
    /\ cont' = NoCont
    /\ UNCHANGED <<qvars, devvars, ctxvars>>

\* the device completes the oldest event of a queue
DeviceComplete(q) ==
    /\ inflight[q] # << >>
    /\ inflight' = [inflight EXCEPT ![q] = Tail(@)]
    /\ UNCHANGED <<qvars, next_evt, ctlvars, ret, arrays, ctxvars>>

\* ------------------------------------------ the wait-queue specification

\* fresh contexts, for each way to configure the eager wait-queue; the
\* content of the caller's array plays no part in the bookkeeping
InitQueue ==
    /\ wait_event_queue_length \in {InitQueueLength(a) : a \in ConstructorArgs}
    /\ kernel_name_to_wait_event_queue = EmptyDict
    /\ transform_cache = EmptyDict
    /\ next_evt = 1
    /\ inflight = [q \in Queues |-> << >>]
    /\ pc = "idle"
    /\ waiting_on = {}
    /\ cont = NoCont
    /\ ret = NoRet
    /\ arrays = [s \in Slots |-> NoArray]
    /\ scalar_func_cache = [c \in Contexts |-> EmptyDict]
    /\ next_obj = 1
    /\ ns = {}
    /\ host = 0
    /\ operator = NoOperator
    /\ visualizer = Visualizer(PyNone, 1)
    /\ files = EmptyDict

\* kernels are dispatched on scalar arguments and their outputs dropped
DispatchStep ==
    /\ next_evt <= MaxDispatch
    /\ \E program \in QueuePrograms, ok \in BOOLEAN :
          EagerCallLoopy(program, 0, 0, ok)

DeviceStep == \E q \in Queues : DeviceComplete(q)

NextQueue == DispatchStep \/ WaitReturn \/ DeviceStep

SpecQueue == InitQueue /\ [][NextQueue]_vars

\* ------------------------------------------------------ array operations

\* what an array operation does: the error it raises, the array it returns,
\* whether it enqueues work (evt = 1), the events it waits on first, and how
\* often it calls the graph lowering
Outcome(raised, res, evt, wait) ==
    [raised |-> raised, res |-> res, evt |-> evt, wait |-> wait, lowered |-> 0]

\* the outcome o of an operation that called pt.generate_loopy first
Lowered(o) == [o EXCEPT !.lowered = 1]

Fails(error) == Outcome(error, NoArray, 0, {})

Returns(res) == Outcome("none", res, 0, {})

\* the events a blocking transfer on the context's queue waits for: those of
\* the array and everything enqueued before it
BlockingOn(ctx, a) == Pending(a) \cup Range(inflight[QueueOf(ctx)])

\* PyOpenCLArrayContext.from_numpy: cla.to_device(self.queue, np_array)
EagerFromNumpy(content, rank) ==
    Returns(ClArray(QueueOf(EagerCtx), content, {}, rank))

\* array.get() on the array's own queue: a frozen array has none
EagerToNumpyOwnQueue(a) ==
    IF ~IsCl(a) THEN Fails("AttributeError")
    ELSE IF a.queue = NoQueue THEN Fails("ValueError")
    ELSE Outcome("none", HostArray(a.content, a.rank), 0, BlockingOn(EagerCtx, a))

\* PyOpenCLArrayContext.to_numpy: array.get(queue=self.queue)
EagerToNumpy(a) ==
    IF ~IsCl(a) THEN Fails("AttributeError")
    ELSE Outcome("none", HostArray(a.content, a.rank), 0, BlockingOn(EagerCtx, a))

\* detaching without waiting for the array's events
FinishWithoutWait(a) == [wait |-> {}, array |-> a]

\* array.finish(): wait for the array's events, then forget them
Finish(a) == [wait |-> Pending(a), array |-> [a EXCEPT !.events = {}]]

\* PyOpenCLArrayContext.freeze: array.finish(); array.with_queue(None)
EagerFreeze(a) ==
    IF ~IsCl(a) THEN Fails("AttributeError")
    ELSE Outcome("none", [Finish(a).array EXCEPT !.queue = NoQueue], 0, Finish(a).wait)

\* thaw by a copy enqueued on the context's queue
EagerThawByCopy(a) ==
    IF ~IsCl(a) THEN Fails("AttributeError")
    ELSE Outcome("none", [a EXCEPT !.queue = QueueOf(EagerCtx)], 1, {})

\* PyOpenCLArrayContext.thaw: array.with_queue(self.queue)
EagerThaw(a) ==
    IF ~IsCl(a) THEN Fails("AttributeError")
    ELSE Returns([a EXCEPT !.queue = QueueOf(EagerCtx)])

\* PytatoArrayContext.from_numpy
LazyFromNumpy(content, rank) ==
    Returns(DataWrapper(LazyCtx, ClArray(QueueOf(LazyCtx), content, {}, rank)))

\* thaw that hands a node back as it is
LazyThawAnyArray(a) ==
    IF IsPtArray(a) THEN Returns(a)
    ELSE IF ~IsCl(a) THEN Fails("TypeError")
    ELSE Returns(DataWrapper(LazyCtx, [a EXCEPT !.queue = QueueOf(LazyCtx)]))

\* PytatoArrayContext.thaw
LazyThaw(a) ==
    IF ~IsCl(a) THEN Fails("TypeError")
    ELSE Returns(DataWrapper(LazyCtx, [a EXCEPT !.queue = QueueOf(LazyCtx)]))

\* freeze without the branch for concrete arrays
LazyFreezeNodesOnly(a, evt) ==
    IF a.kind = "placeholder" THEN Fails("ValueError")
    ELSE IF ~IsPtArray(a) THEN Fails("TypeError")
    ELSE IF Eval(a) = Undefined THEN Lowered(Fails("UnboundArgument"))
    ELSE Lowered(Outcome("none", ClArray(NoQueue, Eval(a), {evt}, a.rank), 1, {evt}))

\* freeze without the check for placeholders
LazyFreezeUnchecked(a, evt) ==
    IF IsCl(a) THEN Returns([a EXCEPT !.queue = NoQueue])
    ELSE IF ~IsPtArray(a) THEN Fails("TypeError")
    ELSE IF Eval(a) = Undefined THEN Lowered(Fails("UnboundArgument"))
    ELSE Lowered(Outcome("none", ClArray(NoQueue, Eval(a), {evt}, a.rank), 1, {evt}))

\* PytatoArrayContext.freeze; evt is the event of the lowered program's
\* execution.  A program whose graph has an unbound placeholder cannot be
\* called without arguments.
LazyFreeze(a, evt) ==
    IF a.kind = "placeholder" THEN Fails("ValueError")
    ELSE IF IsCl(a) THEN Returns([a EXCEPT !.queue = NoQueue])
    ELSE IF ~IsPtArray(a) THEN Fails("TypeError")
    ELSE IF Eval(a) = Undefined THEN Lowered(Fails("UnboundArgument"))
    ELSE Lowered(Outcome("none", ClArray(NoQueue, Eval(a), {evt}, a.rank), 1, {evt}))

\* PytatoArrayContext.to_numpy: self.freeze(array).get(queue=self.queue)
LazyToNumpy(a, evt) ==
    LET f == LazyFreeze(a, evt)
    IN  IF f.raised # "none" THEN f
        ELSE [f EXCEPT !.res = HostArray(f.res.content, f.res.rank),
                       !.wait = f.wait \cup BlockingOn(LazyCtx, f.res)]

\* arguments handed on as they are
LazyKernelArgAsGiven(a) == a

\* the argument as call_loopy hands it to pytato: "thaw frozen arrays"
LazyKernelArg(a) == IF IsCl(a) THEN LazyThaw(a).res ELSE a

\* the input handed back in place of the kernel's output
LazyCallLoopyInput(program, a) == Returns(LazyKernelArg(a))

\* the lazy call that runs the kernel at once, as the eager one does
LazyCallLoopyDispatching(program, a) ==
    Outcome("none", Derived(LazyCtx, program.c_name, LazyKernelArg(a)), 1, {})

\* PytatoArrayContext.call_loopy(program, inp0=a): a new node out = fn(inp0)
LazyCallLoopy(program, a) ==
    Returns(Derived(LazyCtx, program.c_name, LazyKernelArg(a)))

\* an operation op of context ctx on array a with outcome o, its result
\* stored in variable out (0: dropped); r0 holds what is known of the call
\* before it runs
ArrayOp(r0, op, ctx, a, out, o) ==
    /\ pc = "idle"
    /\ LET call == [r0 EXCEPT !.op = op, !.ctx = ctx, !.arg = a, !.dest = out,
                              !.calls.lower = o.lowered, !.calls.run = o.evt]
           done == Return([call EXCEPT !.res = o.res, !.waited = o.wait,
                                       !.evt = IF o.evt = 1 THEN next_evt ELSE 0])
       IN  IF o.raised # "none"
           THEN /\ ret' = Return([call EXCEPT !.raised = o.raised])
                /\ UNCHANGED <<devvars, ctlvars, arrays>>
           ELSE /\ IF o.evt = 1
                   THEN /\ next_evt' = next_evt + 1
                        /\ inflight' = [inflight EXCEPT
                                          ![QueueOf(ctx)] = Append(@, next_evt)]
                   ELSE UNCHANGED devvars
                /\ IF o.wait = {}
                   THEN /\ ret' = done
                        /\ arrays' = Store(out, o.res)
                        /\ UNCHANGED ctlvars
                   ELSE /\ pc' = "wait"
                        /\ waiting_on' = o.wait
                        /\ cont' = Cont(done, out)
                        /\ UNCHANGED <<ret, arrays>>

\* an operation that touches neither the wait-queues nor the caches
ArrayCall(op, ctx, a, out, o) ==
    /\ ArrayOp(NoRet, op, ctx, a, out, o)
    /\ UNCHANGED <<qvars, ctxvars>>

FromNumpy(ctx, content, rank, out) ==
    ArrayCall("from_numpy", ctx, HostArray(content, rank), out,
              IF ctx = EagerCtx THEN EagerFromNumpy(content, rank)
              ELSE LazyFromNumpy(content, rank))

ToNumpy(ctx, inp, out) ==
    /\ UsableIn(ctx, arrays[inp])
    /\ ArrayCall("to_numpy", ctx, arrays[inp], out,
                 IF ctx = EagerCtx THEN EagerToNumpy(arrays[inp])
                 ELSE LazyToNumpy(arrays[inp], next_evt))

Freeze(ctx, inp, out) ==
    /\ UsableIn(ctx, arrays[inp])
    /\ ArrayCall("freeze", ctx, arrays[inp], out,
                 IF ctx = EagerCtx THEN EagerFreeze(arrays[inp])
                 ELSE LazyFreeze(arrays[inp], next_evt))

Thaw(ctx, inp, out) ==
    /\ UsableIn(ctx, arrays[inp])
    /\ ArrayCall("thaw", ctx, arrays[inp], out,
                 IF ctx = EagerCtx THEN EagerThaw(arrays[inp])
                 ELSE LazyThaw(arrays[inp]))

\* empty as an array of zeros
LazyEmptyAsZeros(rank) == LazyFromNumpy(0, rank)

\* PytatoArrayContext.empty(shape, dtype): refused for every shape
LazyEmpty(rank) == Fails("ValueError")

Empty(rank, out) ==
    ArrayCall("empty", LazyCtx, NoArray, out, LazyEmpty(rank))

\* ArrayContext.empty_like(ary) of the lazy context:
\* self.empty(shape=ary.shape, dtype=ary.dtype)
EmptyLike(inp, out) ==
    /\ UsableIn(LazyCtx, arrays[inp])
    /\ ArrayCall("empty_like", LazyCtx, arrays[inp], out,
                 LazyEmpty(arrays[inp].rank))

\* PytatoArrayContext.symbolic_array_var(shape, dtype, name): a placeholder
\* registered under its name in the namespace, which refuses a name that is
\* taken
SymbolicArrayVar(name, rank, out) ==
    /\ ArrayOp(NoRet, "symbolic_array_var", LazyCtx, NoArray, out,
               IF name \in ns THEN Fails("ValueError")
               ELSE Returns(Placeholder(LazyCtx, name, rank)))
    /\ ns' = ns \cup {name}
    /\ UNCHANGED <<qvars, scalar_func_cache, next_obj, host, operator, visvars>>

LazyCall(program, inp, out) ==
    /\ UsableIn(LazyCtx, arrays[inp])
    /\ Depth(arrays[inp]) < MaxDepth
    /\ ArrayOp([NoRet EXCEPT !.prog = program], "call_loopy", LazyCtx,
               arrays[inp], out, LazyCallLoopy(program, arrays[inp]))
    /\ UNCHANGED <<qvars, ctxvars>>

\* ------------------------------------------------- the np namespace

\* _numpy_math_functions: the allow-list (the names of it this model looks
\* up, and the numpy names of the inverse functions)
numpy_math_functions ==
    {"sin", "exp", "maximum",
     "arcsin", "arccos", "arctan", "arctan2", "arcsinh", "arccosh", "arctanh"}

LegacyName(numpy_name) ==
    CASE numpy_name = "arcsin"  -> "asin"
      [] numpy_name = "arccos"  -> "acos"
      [] numpy_name = "arctan"  -> "atan"
      [] numpy_name = "arctan2" -> "atan2"
      [] numpy_name = "arcsinh" -> "asinh"
      [] numpy_name = "arccosh" -> "acosh"
      [] numpy_name = "arctanh" -> "atanh"

ArcNames ==
    {"arcsin", "arccos", "arctan", "arctan2", "arcsinh", "arccosh", "arctanh"}

\* _numpy_to_c_arc_functions
numpy_to_c_arc_functions == [n \in ArcNames |-> LegacyName(n)]

\* _c_to_numpy_arc_functions: the inverse dict
c_to_numpy_arc_functions ==
    [c \in {LegacyName(n) : n \in ArcNames} |->
        CHOOSE n \in ArcNames : LegacyName(n) = c]

\* the methods the namespace classes define themselves: python finds these
\* without calling __getattr__
ExplicitMethods(ctx) ==
    IF ctx = EagerCtx
    THEN {"maximum", "minimum", "where", "sum", "min", "max", "reshape",
          "concatenate", "transpose", "conjugate", "conj"}
    ELSE {"exp", "reshape", "transpose", "concatenate", "conjugate", "conj"}

\* a lookup that hands every name to loopy
getattrAnyName(name) ==
    [raised |-> "none", kind |-> "loopy",
     warned |-> name \in DOMAIN c_to_numpy_arc_functions,
     c_name |-> DictGet(numpy_to_c_arc_functions, name, name)]

\* _BaseFakeNumpyNamespace.__getattr__(name): whether it warns of a deprecated
\* name, the C name it normalizes to, and whether it returns the elementwise
\* callable or raises
getattr(name) ==
    LET warned == name \in DOMAIN c_to_numpy_arc_functions
        c_name == DictGet(numpy_to_c_arc_functions, name, name)
    IN  IF name \in numpy_math_functions
        THEN [raised |-> "none", kind |-> "loopy", warned |-> warned,
              c_name |-> c_name]
        ELSE [raised |-> "AttributeError", kind |-> "none", warned |-> warned,
              c_name |-> c_name]

\* the attribute lookup actx.np.<name>
NpLookup(ctx, name) ==
    IF name \in ExplicitMethods(ctx)
    THEN [raised |-> "none", kind |-> "method", warned |-> FALSE, c_name |-> name]
    ELSE getattr(name)

\* the kernel _get_scalar_func_loopy_program builds
ScalarFuncProgramNamedByKey(c_name, nargs, naxes) ==
    make_loopy_program(<<"actx_special_", c_name, nargs, naxes>>,
                       {IName(i) : i \in 0 .. (naxes - 1)}, c_name, nargs)

ScalarFuncProgram(c_name, nargs, naxes) ==
    make_loopy_program(<<"actx_special_", c_name>>,
                       {IName(i) : i \in 0 .. (naxes - 1)}, c_name, nargs)

\* without the memo: every request builds a kernel
build_scalar_func_loopy_program(cache, obj, c_name, nargs, naxes) ==
    LET built == [ScalarFuncProgram(c_name, nargs, naxes) EXCEPT !.obj = obj]
    IN  [program |-> built,
         cache |-> DictSet(cache, <<c_name, nargs, naxes>>, built),
         next_obj |-> obj + 1]

\* ArrayContext._get_scalar_func_loopy_program under memoize_method: cache is
\* the memo of the context, obj the identity a newly built kernel gets
get_scalar_func_loopy_program(cache, obj, c_name, nargs, naxes) ==
    LET key == <<c_name, nargs, naxes>>
        built == [ScalarFuncProgram(c_name, nargs, naxes) EXCEPT !.obj = obj]
    IN  IF key \in DOMAIN cache
        THEN [program |-> cache[key], cache |-> cache, next_obj |-> obj]
        ELSE [program |-> built, cache |-> DictSet(cache, key, built),
              next_obj |-> obj + 1]

\* a request is made while the caches may still build a kernel, or for a key
\* whose kernel the context has built
CanRequest(ctx, c_name, nargs, naxes) ==
    \/ next_obj <= MaxObjects
    \/ <<c_name, nargs, naxes>> \in DOMAIN scalar_func_cache[ctx]

\* a direct request to the kernel cache of a context
GetScalarFuncLoopyProgram(ctx, c_name, nargs, naxes) ==
    /\ pc = "idle"
    /\ LET g == get_scalar_func_loopy_program(scalar_func_cache[ctx], next_obj,
                                              c_name, nargs, naxes)
       IN  /\ scalar_func_cache' = [scalar_func_cache EXCEPT ![ctx] = g.cache]
           /\ next_obj' = g.next_obj
           /\ ret' = Return([NoRet EXCEPT !.op = "get_program", !.ctx = ctx,
                                          !.key = <<c_name, nargs, naxes>>,
                                          !.prog = g.program])
    /\ UNCHANGED <<qvars, devvars, ctlvars, arrays, nsvars>>

\* _PyOpenCLFakeNumpyNamespace.sum: cl_array.sum(a, queue=...).get()[()]
EagerSum(a, evt) ==
    IF ~IsCl(a) THEN Fails("TypeError")
    ELSE Outcome("none", HostArray(a.content, 0), 1,
                 {evt} \cup BlockingOn(EagerCtx, a))

\* actx.np.<name>(arrays[inp]) in the eager context
EagerNp(name, inp, out, dispatch_ok) ==
    /\ pc = "idle"
    /\ UsableIn(EagerCtx, arrays[inp])
    /\ LET a == arrays[inp]
           l == NpLookup(EagerCtx, name)
           r0 == [NoRet EXCEPT !.name = name, !.warned = l.warned]
           g == get_scalar_func_loopy_program(scalar_func_cache[EagerCtx],
                                              next_obj, l.c_name, 1, a.rank)
       IN  IF l.raised # "none"
           THEN /\ ret' = Return([r0 EXCEPT !.op = "np", !.ctx = EagerCtx,
                                            !.raised = l.raised])
                /\ UNCHANGED <<qvars, devvars, ctlvars, arrays, ctxvars>>
           ELSE IF l.kind = "method"
           THEN /\ ArrayOp(r0, "np", EagerCtx, a, 0, EagerSum(a, next_evt))
                /\ UNCHANGED <<qvars, ctxvars>>
           ELSE /\ EagerDispatch([r0 EXCEPT !.key = <<l.c_name, 1, a.rank>>,
                                            !.prog = g.program],
                                 g.program, inp, out, dispatch_ok)
                /\ scalar_func_cache' = [scalar_func_cache EXCEPT
                                           ![EagerCtx] = g.cache]
                /\ next_obj' = g.next_obj
                /\ UNCHANGED nsvars

\* pt.exp(a), which belongs to pytato: accepted is whether it takes an
\* argument that is no node
PtExp(a, accepted) ==
    IF IsPtArray(a) \/ accepted THEN Returns(Derived(LazyCtx, "exp", a))
    ELSE Fails("AttributeError")

\* what the callable that the lookup l returned does with the array a
LazyNpOutcome(l, program, a, accepted) ==
    IF l.kind = "method" THEN PtExp(a, accepted) ELSE LazyCallLoopy(program, a)

\* actx.np.<name>(arrays[inp]) in the lazy context
LazyNp(name, inp, out, accepted) ==
    /\ pc = "idle"
    /\ UsableIn(LazyCtx, arrays[inp])
    /\ Depth(arrays[inp]) < MaxDepth
    /\ LET a == arrays[inp]
           l == NpLookup(LazyCtx, name)
           r0 == [NoRet EXCEPT !.name = name, !.warned = l.warned]
           g == get_scalar_func_loopy_program(scalar_func_cache[LazyCtx],
                                              next_obj, l.c_name, 1, a.rank)
       IN  IF l.raised # "none"
           THEN /\ ret' = Return([r0 EXCEPT !.op = "np", !.ctx = LazyCtx,
                                            !.raised = l.raised])
                /\ UNCHANGED <<qvars, devvars, ctlvars, arrays, ctxvars>>
           ELSE IF l.kind = "method"
           THEN /\ ArrayOp(r0, "np", LazyCtx, a, out,
                           LazyNpOutcome(l, NoProgram, a, accepted))
                /\ UNCHANGED <<qvars, ctxvars>>
           ELSE /\ ArrayOp([r0 EXCEPT !.key = <<l.c_name, 1, a.rank>>,
                                      !.prog = g.program],
                           "call_loopy", LazyCtx, a, out,
                           LazyNpOutcome(l, g.program, a, accepted))
                /\ scalar_func_cache' = [scalar_func_cache EXCEPT
                                           ![LazyCtx] = g.cache]
                /\ next_obj' = g.next_obj
                /\ UNCHANGED <<qvars, nsvars>>

\* ------------------------------------------------------------ compile

\* an object array of DOFArrays is a sequence (the fields) of sequences (the
\* groups of a field) of arrays; its shape is the group count of each field
ShapeOf(fields) == [i \in DOMAIN fields |-> Len(fields[i])]

\* f"_msh_inp_{i}_{j}" and f"_msh_out_{i}_{j}", i and j counted from 0
InputName(i, j) == <<"_msh_inp_", i, j>>

OutputName(i, j) == <<"_msh_out_", i, j>>

\* the traced functions: the identity, the composition of two elementwise
\* functions, and a function that returns two fields of different group counts
Functions == {"identity", "exp_sin", "two_fields"}

\* actx.np.sin(a) and actx.np.exp(a) of the lazy context, as array values
LazySin(a) ==
    LazyNpOutcome(NpLookup(LazyCtx, "sin"), ScalarFuncProgram("sin", 1, a.rank),
                  a, TRUE).res

LazyExp(a) ==
    LazyNpOutcome(NpLookup(LazyCtx, "exp"), NoProgram, a, TRUE).res

\* f(x) in the lazy context
ApplyFunction(f, x) ==
    CASE f = "identity" -> x
      [] f = "exp_sin" ->
            [i \in DOMAIN x |-> [j \in DOMAIN x[i] |-> LazyExp(LazySin(x[i][j]))]]
      [] f = "two_fields" ->
            <<Append(x[1], LazySin(x[1][1])), <<LazyExp(x[1][1])>>>>

\* the kernel cache after f ran: the functions that use np.sin request its
\* rank-1 kernel
TraceCache(f, cache, obj) ==
    IF f = "identity"
    THEN [program |-> NoProgram, cache |-> cache, next_obj |-> obj]
    ELSE get_scalar_func_loopy_program(cache, obj, "sin", 1, 1)

\* make_placeholder_like(input_like), input_like given by its shape
make_placeholder_like(shape) ==
    [i \in DOMAIN shape |->
        [j \in 1 .. shape[i] |-> Placeholder(LazyCtx, InputName(i - 1, j - 1), 1)]]

\* the names of the leaves of a nested array of placeholders
LeafNames(fields) ==
    UNION {{fields[i][j].name : j \in DOMAIN fields[i]} : i \in DOMAIN fields}

\* the dict of named outputs with a spec of one leaf per field
as_dict_of_first_leaves(outputs) ==
    [dict |-> [n \in {OutputName(i - 1, 0) : i \in DOMAIN outputs} |->
                  outputs[n[2] + 1][1]],
     output_spec |-> [i \in DOMAIN outputs |-> 1]]

\* as_dict_of_named_arrays(outputs): the dict of named outputs, output_spec
as_dict_of_named_arrays(outputs) ==
    LET names == UNION {{OutputName(i - 1, j - 1) : j \in DOMAIN outputs[i]} :
                        i \in DOMAIN outputs}
    IN  [dict |-> [n \in names |-> outputs[n[2] + 1][n[3] + 1]],
         output_spec |-> ShapeOf(outputs)]

\* PyOpenCLArrayContext.compile(f, input_like): "return f"
EagerCompile(f, shape) ==
    /\ pc = "idle"
    /\ operator' = [NoOperator EXCEPT !.kind = "function", !.f = f]
    /\ ret' = Return([NoRet EXCEPT !.op = "compile", !.ctx = EagerCtx, !.f = f,
                                   !.callable = operator'])
    /\ UNCHANGED <<qvars, devvars, ctlvars, arrays, scalar_func_cache, next_obj,
                   ns, host, visvars>>

\* a compile that, when the placeholder names are taken, stores the new
\* program and specs in the operator compiled before
LazyCompileIntoOperator(f, shape) ==
    /\ pc = "idle"
    /\ LET placeholders == make_placeholder_like(shape)
           named == as_dict_of_named_arrays(ApplyFunction(f, placeholders))
           t == TraceCache(f, scalar_func_cache[LazyCtx], next_obj)
           compiled == [kind |-> "PytatoCompiledOperator", f |-> f,
                        pytato_program |-> named.dict, input_spec |-> shape,
                        output_spec |-> named.output_spec]
       IN  /\ ns' = ns \cup LeafNames(placeholders)
           /\ scalar_func_cache' = [scalar_func_cache EXCEPT ![LazyCtx] = t.cache]
           /\ next_obj' = t.next_obj
           /\ operator' = compiled
           /\ ret' = Return([NoRet EXCEPT !.op = "compile", !.ctx = LazyCtx,
                                          !.f = f, !.callable = compiled,
                                          !.calls.f = 1, !.calls.lower = 1,
                                          !.raised = IF LeafNames(placeholders)
                                                          \cap ns # {}
                                                      THEN "ValueError"
                                                      ELSE "none"])
    /\ UNCHANGED <<qvars, devvars, ctlvars, arrays, host, visvars>>

\* PytatoArrayContext.compile(f, input_like): placeholders named after their
\* position are registered in the namespace (which refuses a name that is
\* taken), f runs once on them, and its outputs are lowered into one program.
\* The operator keeps the program and the two specs; the model also keeps f.
LazyCompile(f, shape) ==
    /\ pc = "idle"
    /\ LET placeholders == make_placeholder_like(shape)
           outputs == ApplyFunction(f, placeholders)
           named == as_dict_of_named_arrays(outputs)
           t == TraceCache(f, scalar_func_cache[LazyCtx], next_obj)
           compiled == [kind |-> "PytatoCompiledOperator", f |-> f,
                        pytato_program |-> named.dict, input_spec |-> shape,
                        output_spec |-> named.output_spec]
           call == [NoRet EXCEPT !.op = "compile", !.ctx = LazyCtx, !.f = f]
       IN  IF LeafNames(placeholders) \cap ns # {}
           THEN /\ ret' = Return([call EXCEPT !.raised = "ValueError"])
                /\ UNCHANGED <<scalar_func_cache, next_obj, ns, operator>>
           ELSE /\ ns' = ns \cup LeafNames(placeholders)
                /\ scalar_func_cache' = [scalar_func_cache EXCEPT
                                           ![LazyCtx] = t.cache]
                /\ next_obj' = t.next_obj
                /\ operator' = compiled
                /\ ret' = Return([call EXCEPT !.callable = compiled,
                                              !.calls.f = 1, !.calls.lower = 1])
    /\ UNCHANGED <<qvars, devvars, ctlvars, arrays, host, visvars>>

\* the positions (i, j) of a spec, counted from 1
Positions(spec) ==
    UNION {{<<i, j>> : j \in 1 .. spec[i]} : i \in DOMAIN spec}

\* the loop body that takes every pytato array for a leaf
LeafErrorNodesAccepted(array, pos) ==
    IF pos[1] > Len(array) THEN "IndexError"
    ELSE IF pos[2] > Len(array[pos[1]]) THEN "IndexError"
    ELSE IF array[pos[1]][pos[2]].kind \notin {"datawrapper", "cl", "derived"}
    THEN "TypeError"
    ELSE "none"

\* what the loop body of from_obj_array_to_input_dict raises at a position
LeafError(array, pos) ==
    IF pos[1] > Len(array) THEN "IndexError"
    ELSE IF pos[2] > Len(array[pos[1]]) THEN "IndexError"
    ELSE IF array[pos[1]][pos[2]].kind \notin {"datawrapper", "cl"} THEN "TypeError"
    ELSE "none"

\* from_obj_array_to_input_dict(array): the error of the first position that
\* raises, or the dict of named concrete arrays; got is what the message of
\* the TypeError holds, the type of the leaf
from_obj_array_to_input_dict(input_spec, array) ==
    LET bad == {p \in Positions(input_spec) : LeafError(array, p) # "none"}
        first == CHOOSE p \in bad : \A q \in bad :
                    p[1] < q[1] \/ (p[1] = q[1] /\ p[2] <= q[2])
        names == {InputName(p[1] - 1, p[2] - 1) : p \in Positions(input_spec)}
        leaf(n) == array[n[2] + 1][n[3] + 1]
    IN  IF bad # {}
        THEN [raised |-> LeafError(array, first), dict |-> EmptyDict,
              got |-> IF LeafError(array, first) = "TypeError"
                      THEN array[first[1]][first[2]].kind ELSE "none"]
        ELSE [raised |-> "none", got |-> "none",
              dict |-> [n \in names |-> IF leaf(n).kind = "datawrapper"
                                        THEN DataOf(leaf(n)) ELSE leaf(n)]]

\* the fields rebuilt with the group counts of the inputs
from_return_dict_by_input_spec(output_spec, return_dict, input_spec) ==
    [i \in DOMAIN input_spec |->
        [j \in 1 .. input_spec[i] |-> return_dict[OutputName(0, 0)]]]

\* from_return_dict_to_obj_array(return_dict)
from_return_dict_to_obj_array(output_spec, return_dict, input_spec) ==
    [i \in DOMAIN output_spec |->
        [j \in 1 .. output_spec[i] |-> return_dict[OutputName(i - 1, j - 1)]]]

\* the operator without "evt.wait()": the queue the outputs are attached to
\* orders what follows
CallReturns(done, evt) ==
    /\ ret' = Return([done EXCEPT !.waited = {}])
    /\ UNCHANGED ctlvars

\* the operator that returns as soon as the program is enqueued, the event
\* still reported as waited on
CallReturnsAtOnce(done, evt) ==
    /\ ret' = Return(done)
    /\ UNCHANGED ctlvars

\* "evt.wait()": the call returns once the program's event is complete
CallWaits(done, evt) ==
    /\ pc' = "wait"
    /\ waiting_on' = {evt}
    /\ cont' = Cont(Return(done), 0)
    /\ UNCHANGED ret

\* PytatoCompiledOperator.__call__(fields): the lowered program runs on the
\* named inputs, and the call waits for it
CallOperator(fields) ==
    /\ pc = "idle"
    /\ operator.kind = "PytatoCompiledOperator"
    /\ \A i \in DOMAIN fields : \A j \in DOMAIN fields[i] :
          UsableIn(LazyCtx, fields[i][j])
    /\ LET d == from_obj_array_to_input_dict(operator.input_spec, fields)
           env == [n \in DOMAIN d.dict |-> d.dict[n].content]
           evt == next_evt
           program == operator.pytato_program
           out_dict == [n \in DOMAIN program |->
                           ClArray(QueueOf(LazyCtx), Exec(program[n], env),
                                   {evt}, program[n].rank)]
           call == [NoRet EXCEPT !.op = "operator_call", !.ctx = LazyCtx,
                                 !.f = operator.f, !.callable = operator,
                                 !.fields = fields]
           done == [call EXCEPT !.evt = evt, !.waited = {evt}, !.calls.run = 1,
                                !.out = from_return_dict_to_obj_array(
                                            operator.output_spec, out_dict,
                                            operator.input_spec)]
       IN  IF d.raised # "none"
           THEN /\ ret' = Return([call EXCEPT !.raised = d.raised,
                                              !.got = d.got])
                /\ UNCHANGED <<devvars, ctlvars>>
           ELSE /\ next_evt' = next_evt + 1
                /\ inflight' = [inflight EXCEPT ![QueueOf(LazyCtx)] = Append(@, evt)]
                /\ CallWaits(done, evt)
    /\ UNCHANGED <<qvars, arrays, ctxvars>>

\* --------------------------------------------- the array specification

\* the kernels of the array scenarios
ArrayPrograms == {SinRank1, NoOptionsKernel}

InitArrays ==
    /\ wait_event_queue_length = InitQueueLength(PyNone)
    /\ kernel_name_to_wait_event_queue = EmptyDict
    /\ transform_cache = EmptyDict
    /\ next_evt = 1
    /\ inflight = [q \in Queues |-> << >>]
    /\ pc = "idle"
    /\ waiting_on = {}
    /\ cont = NoCont
    /\ ret = NoRet
    /\ arrays = [s \in Slots |-> NoArray]
    /\ scalar_func_cache = [c \in Contexts |-> EmptyDict]
    /\ next_obj = 1
    /\ ns = {}
    /\ host \in Values
    /\ operator = NoOperator
    /\ visualizer = Visualizer(PyNone, 1)
    /\ files = EmptyDict

FromNumpyStep ==
    \E ctx \in Contexts, out \in Slots : FromNumpy(ctx, host, 1, out)

ToNumpyStep ==
    /\ next_evt <= MaxArrayEvents
    /\ \E ctx \in Contexts, inp \in Slots : ToNumpy(ctx, inp, 0)

FreezeStep ==
    /\ next_evt <= MaxArrayEvents
    /\ \E ctx \in Contexts, inp \in Slots, out \in Slots : Freeze(ctx, inp, out)

\* the caller assigns the thawed array to its variable or uses it in place
ThawStep ==
    \E ctx \in Contexts, inp \in Slots, out \in Slots \cup {0} : Thaw(ctx, inp, out)

EagerCallStep ==
    /\ next_evt <= MaxArrayEvents
    /\ \E program \in ArrayPrograms, inp \in Slots, out \in Slots, ok \in BOOLEAN :
          EagerCallLoopy(program, inp, out, ok)

LazyCallStep ==
    \E program \in ArrayPrograms, inp \in Slots, out \in Slots :
        LazyCall(program, inp, out)

NextArrays ==
    \/ FromNumpyStep
    \/ ToNumpyStep
    \/ FreezeStep
    \/ ThawStep
    \/ EagerCallStep
    \/ LazyCallStep
    \/ WaitReturn
    \/ DeviceStep

SpecArrays == InitArrays /\ [][NextArrays]_vars

\* ------------------------------------------ the lazy-context specification

\* the operations of the lazy context on the caller's variable, which may
\* hold a data-wrapper, a placeholder, a computed node, a frozen array or a
\* host array
NextLazy ==
    \/ \E out \in Slots : FromNumpy(LazyCtx, host, 1, out)
    \/ \E out \in Slots : SymbolicArrayVar(<<"u">>, 1, out)
    \/ \E rank \in 1 .. MaxRank, out \in Slots : Empty(rank, out)
    \/ \E inp \in Slots, out \in Slots : EmptyLike(inp, out)
    \/ /\ next_evt <= MaxArrayEvents
       /\ \E inp \in Slots, out \in Slots : ToNumpy(LazyCtx, inp, out)
    \/ /\ next_evt <= MaxArrayEvents
       /\ \E inp \in Slots, out \in Slots : Freeze(LazyCtx, inp, out)
    \/ \E inp \in Slots, out \in Slots : Thaw(LazyCtx, inp, out)
    \/ \E inp \in Slots, out \in Slots : LazyCall(SinRank1, inp, out)
    \/ WaitReturn
    \/ DeviceStep

SpecLazy == InitArrays /\ [][NextLazy]_vars

\* ------------------------------------- the synchronization specification

\* contexts whose wait-queue bound is 1 or the default, so that a dispatch
\* may or may not exceed it
InitSync ==
    /\ InitQueue
    /\ wait_event_queue_length \in {1, DefaultWaitEventQueueLength}

\* every operation that may reach the device, on the caller's variable: the
\* array operations of both contexts, the reduction of the eager namespace,
\* and an operator compiled from one of two functions and called on the
\* variable
NextSync ==
    \/ FromNumpyStep
    \/ \E ctx \in Contexts, inp \in Slots, out \in Slots : Thaw(ctx, inp, out)
    \/ FreezeStep
    \/ ToNumpyStep
    \/ /\ next_evt <= MaxArrayEvents
       /\ \E inp \in Slots, out \in Slots : EagerCallLoopy(SinRank1, inp, out, TRUE)
    \/ \E inp \in Slots, out \in Slots : LazyCall(SinRank1, inp, out)
    \/ /\ next_evt <= MaxArrayEvents
       /\ \E inp \in Slots : EagerNp("sum", inp, 0, TRUE)
    \/ \E f \in {"identity", "exp_sin"} : LazyCompile(f, <<1>>)
    \/ /\ next_evt <= MaxArrayEvents
       /\ CallOperator(<<arrays>>)
    \/ WaitReturn
    \/ DeviceStep

SpecSync == InitSync /\ [][NextSync]_vars

\* the calls the contexts wait in: the eager call_loopy, freeze, and the
\* invocation of a compiled operator
NextWait ==
    \/ FromNumpyStep
    \/ FreezeStep
    \/ /\ next_evt <= MaxArrayEvents
       /\ \E inp \in Slots, out \in Slots : EagerCallLoopy(SinRank1, inp, out, TRUE)
    \/ LazyCompile("identity", <<1>>)
    \/ /\ next_evt <= MaxArrayEvents
       /\ CallOperator(<<arrays>>)
    \/ WaitReturn
    \/ DeviceStep

\* with a device that completes every event it was given, and a wait() that
\* returns once its event is complete
SpecWaitFair ==
    InitSync /\ [][NextWait]_vars /\ WF_vars(DeviceStep) /\ WF_vars(WaitReturn)

\* ------------------------------------------ the np-namespace specification

\* the C names, argument counts and ranks the kernel cache is asked for
\* directly
CacheNames == {"sin", "asin"}

CacheArgCounts == {1, 2}

CacheRanks == {1, 2}

\* the names looked up: supported ones, the reduction the eager namespace
\* defines, two of the legacy short names, and a name nobody implements
NpNames == {"sin", "exp", "arcsin", "sum", "asin", "atan2", "foo"}

\* the request the callable of a name makes for the caller's array is allowed
NpCanRequest(ctx, name, inp) ==
    NpLookup(ctx, name).kind = "loopy" =>
        CanRequest(ctx, NpLookup(ctx, name).c_name, 1, arrays[inp].rank)

EagerNpStep ==
    /\ next_evt <= MaxNpEvents
    /\ \E name \in NpNames, inp \in Slots, out \in Slots, ok \in BOOLEAN :
          /\ NpCanRequest(EagerCtx, name, inp)
          /\ EagerNp(name, inp, out, ok)

LazyNpStep ==
    \E name \in NpNames, inp \in Slots, out \in Slots, ok \in BOOLEAN :
        /\ NpCanRequest(LazyCtx, name, inp)
        /\ LazyNp(name, inp, out, ok)

NextNp ==
    \/ FromNumpyStep
    \/ EagerNpStep
    \/ LazyNpStep
    \/ WaitReturn
    \/ DeviceStep

SpecNp == InitArrays /\ [][NextNp]_vars

\* ------------------------------------------ the kernel-cache specification

\* arrays of every rank are uploaded
RankedFromNumpyStep ==
    \E ctx \in Contexts, rank \in 1 .. MaxRank, out \in Slots :
        FromNumpy(ctx, host, rank, out)

\* the kernel cache is asked directly
CacheRequestStep ==
    \E ctx \in Contexts, c_name \in CacheNames, nargs \in CacheArgCounts,
       naxes \in CacheRanks :
        /\ CanRequest(ctx, c_name, nargs, naxes)
        /\ GetScalarFuncLoopyProgram(ctx, c_name, nargs, naxes)

\* np.sin of the caller's array, its result dropped: a request by the
\* elementwise callable, followed by a dispatch (which never blocks here: the
\* wait-queue has the default bound)
CachedSinStep ==
    /\ next_evt <= MaxNpEvents
    /\ \E inp \in Slots :
          \/ NpCanRequest(EagerCtx, "sin", inp) /\ EagerNp("sin", inp, 0, TRUE)
          \/ NpCanRequest(LazyCtx, "sin", inp) /\ LazyNp("sin", inp, 0, TRUE)

NextCache ==
    \/ RankedFromNumpyStep
    \/ CacheRequestStep
    \/ CachedSinStep
    \/ DeviceStep

\* the content of the arrays plays no part here
InitCache == InitArrays /\ host = 0

SpecCache == InitCache /\ [][NextCache]_vars

\* ------------------------------------------------ the compile specification

\* the shapes of input_like and of the inputs of an operator
Shapes == {<<1>>, <<2>>, <<1, 1>>}

\* the leaves of the inputs: the caller's host array and one of another
\* content uploaded, the host array uploaded and frozen, and what an operator
\* does not take: the host array itself, a node computed from it, and a
\* placeholder
Leaves ==
    {LazyFromNumpy(host, 1).res, LazyFromNumpy((host + 1) % NumValues, 1).res}
    \cup {LazyFreeze(LazyFromNumpy(host, 1).res, 0).res,
          HostArray(host, 1),
          LazySin(LazyFromNumpy(host, 1).res),
          Placeholder(LazyCtx, InputName(0, 0), 1)}

\* the nested arrays of a shape
FieldsOfShape(shape) ==
    {x \in [DOMAIN shape -> UNION {[1 .. n -> Leaves] : n \in Range(shape)}] :
        ShapeOf(x) = shape}

CompileStep ==
    \E f \in Functions, shape \in Shapes :
        \/ EagerCompile(f, shape)
        \/ LazyCompile(f, shape)

CallOperatorStep ==
    /\ next_evt <= MaxOperatorCalls
    /\ \E shape \in Shapes : \E fields \in FieldsOfShape(shape) :
          CallOperator(fields)

NextCompile ==
    \/ CompileStep
    \/ CallOperatorStep
    \/ WaitReturn
    \/ DeviceStep

SpecCompile == InitArrays /\ [][NextCompile]_vars

\* ------------------------------------------------- the tiling specification

\* the eager context dispatches kernels of every iname pattern: the
\* elementwise kernels np.sin takes from the kernel cache for an array of
\* rank 1 or 2, and the caller's kernels over iel and idof, over k, without
\* the options, over iel alone, and over iel, idof, i0 and i1; its kernel
\* cache is asked directly; a dispatch of a caller's kernel may fail in the
\* device
NextTiling ==
    \/ \E rank \in CacheRanks, out \in Slots : FromNumpy(EagerCtx, host, rank, out)
    \/ \E naxes \in CacheRanks :
          /\ CanRequest(EagerCtx, "sin", 1, naxes)
          /\ GetScalarFuncLoopyProgram(EagerCtx, "sin", 1, naxes)
    \/ /\ next_evt <= MaxArrayEvents
       /\ \E inp \in Slots :
             /\ NpCanRequest(EagerCtx, "sin", inp)
             /\ EagerNp("sin", inp, 0, TRUE)
    \/ /\ next_evt <= MaxArrayEvents
       /\ \E program \in {ElDofKernel, FlatKernel, NoOptionsKernel,
                           make_loopy_program(<<"mm_actx_kernel">>,
                               {<<"iel">>}, "user", 1),
                           make_loopy_program(<<"mm_actx_kernel">>,
                               {<<"iel">>, <<"idof">>, IName(0), IName(1)},
                               "user", 1)},
             ok \in BOOLEAN :
             EagerCallLoopy(program, 0, 0, ok)
    \/ DeviceStep

SpecTiling == InitCache /\ [][NextTiling]_vars

\* -------------------------------------------------- the token specification

\* an eager context of bound 1 or of the default bound, whose caller uploads
\* arrays of rank 1 and 2, applies np.sin to them (two kernels of one name),
\* dispatches a kernel of another name, and freezes, thaws and downloads
\* what it holds
NextTokens ==
    \/ \E rank \in CacheRanks, out \in Slots : FromNumpy(EagerCtx, host, rank, out)
    \/ /\ next_evt <= MaxArrayEvents + 1
       /\ \E inp \in Slots, out \in Slots :
             /\ NpCanRequest(EagerCtx, "sin", inp)
             /\ EagerNp("sin", inp, out, TRUE)
    \/ /\ next_evt <= MaxArrayEvents + 1
       /\ \E inp \in Slots, out \in Slots : EagerCallLoopy(ElDofKernel, inp, out, TRUE)
    \/ \E inp \in Slots, out \in Slots : Freeze(EagerCtx, inp, out)
    \/ \E inp \in Slots, out \in Slots : Thaw(EagerCtx, inp, out)
    \/ \E inp \in Slots : ToNumpy(EagerCtx, inp, 0)
    \/ WaitReturn
    \/ DeviceStep

SpecTokens == InitSync /\ [][NextTokens]_vars

\* ------------------------------------------- the visualizer specification

\* the names the caller writes to
FileNames == {"out.vtu", "adj.vtu"}

\* a visualizer of one or two element groups, with or without a shrink
\* factor, and a file system where the first file may exist already
InitVis ==
    /\ wait_event_queue_length = InitQueueLength(PyNone)
    /\ kernel_name_to_wait_event_queue = EmptyDict
    /\ transform_cache = EmptyDict
    /\ next_evt = 1
    /\ inflight = [q \in Queues |-> << >>]
    /\ pc = "idle"
    /\ waiting_on = {}
    /\ cont = NoCont
    /\ ret = NoRet
    /\ arrays = [s \in Slots |-> NoArray]
    /\ scalar_func_cache = [c \in Contexts |-> EmptyDict]
    /\ next_obj = 1
    /\ ns = {}
    /\ host = 0
    /\ operator = NoOperator
    /\ visualizer \in {Visualizer(factor, ngroups) :
                          factor \in {PyNone, 0, 1, 2}, ngroups \in {1, 2}}
    /\ files \in {EmptyDict,
                 DictSet(EmptyDict, "out.vtu",
                         [kind |-> "other", points |-> << >>, data |-> << >>])}

NextVis ==
    \/ \E file_name \in FileNames, overwrite \in BOOLEAN,
          field \in [kind : {"dofarray", "number"}, data : Values] :
          WriteVtkFile(file_name, field, overwrite)
    \/ \E file_name \in FileNames, overwrite \in BOOLEAN :
          WriteNodalAdjacencyVtkFile(file_name, overwrite)

SpecVis == InitVis /\ [][NextVis]_vars

\* ---------------------------------------------------------------- C1

\* C1: with the wait-queue enabled and bound B = wait_event_queue_length >= 0
\* (10 when the constructor got None), whenever call_loopy has returned no
\* kernel name's wait-queue holds more than B events.
C1_QueueBounded ==
    (pc = "idle" /\ wait_event_queue_length # PyFalse)
        => \A n \in DOMAIN kernel_name_to_wait_event_queue :
              Len(kernel_name_to_wait_event_queue[n]) <= wait_event_queue_length

\* a call of the unconfigured context has returned after evicting an event:
\* its queue holds exactly the default bound of events
C1_Witness ==
    /\ pc = "idle"
    /\ wait_event_queue_length = DefaultWaitEventQueueLength
    /\ ret.op = "call_loopy" /\ ret.waited # {}
    /\ \E n \in DOMAIN kernel_name_to_wait_event_queue :
          Len(kernel_name_to_wait_event_queue[n]) = DefaultWaitEventQueueLength

\* ---------------------------------------------------------------- C2

\* C2: when freeze has returned, in the eager or in the lazy context, no event
\* of the work that writes the given array or the returned array is still
\* incomplete, and the returned array has no queue.
C2_FreezeSynchronizes ==
    (ret.op = "freeze" /\ ret.raised = "none")
        => /\ Pending(ret.arg) = {}
           /\ Pending(ret.res) = {}
           /\ IsFrozen(ret.res)

\* an eager freeze that had to wait for the kernel writing its array
C2_Witness ==
    /\ ret.op = "freeze" /\ ret.raised = "none" /\ ret.ctx = EagerCtx
    /\ ret.waited # {}
    /\ IsFrozen(ret.res)

\* ---------------------------------------------------------------- C3

\* C3: a round trip freeze, thaw, freeze in one context ends with a frozen
\* array whose content is that of the first frozen array, and no step of it
\* raises; freeze of a frozen array returns a frozen array of the same content.
C3_FreezeIdempotent ==
    /\ ret.chain.stage # -1
    /\ ret.chain.stage = 3 =>
          /\ IsFrozen(ret.chain.first) /\ IsFrozen(ret.chain.last)
          /\ ret.chain.last.content = ret.chain.first.content
    /\ (ret.op = "freeze" /\ IsFrozen(ret.arg)) =>
          /\ ret.raised = "none"
          /\ IsFrozen(ret.res)
          /\ ret.res.content = ret.arg.content

\* a completed round trip in the lazy context that started from a computed
\* node and whose content is not that of the host array
C3_Witness ==
    /\ ret.chain.stage = 3
    /\ ret.chain.ctx = LazyCtx
    /\ ret.chain.first.content # host

\* ---------------------------------------------------------------- C4

\* C4 as claimed: call_loopy given a frozen array raises instead of returning
\* a result.
C4_FrozenArgumentRefused ==
    (ret.op = "call_loopy" /\ IsFrozen(ret.arg)) => ret.raised # "none"

\* C4 amended: the lazy call_loopy given a frozen array does not raise: it
\* wraps the array in a data-wrapper of its namespace, attached to its queue,
\* and returns the symbolic output of the kernel applied to that node.
C4_LazyCallThawsFrozen ==
    (ret.op = "call_loopy" /\ ret.ctx = LazyCtx /\ IsFrozen(ret.arg)) =>
        /\ ret.raised = "none"
        /\ ret.res.kind = "derived"
        /\ ret.res.arg[1].kind = "datawrapper"
        /\ ret.res.arg[1].ns = LazyCtx
        /\ ret.res.arg[1].queue = QueueOf(LazyCtx)
        /\ ret.res.arg[1].content = ret.arg.content

C4_Witness ==
    /\ ret.op = "call_loopy" /\ ret.ctx = LazyCtx /\ IsFrozen(ret.arg)
    /\ ret.res.kind = "derived"
    /\ arrays[1] = ret.res

\* ---------------------------------------------------------------- C5

ThawedFields(fields) ==
    [i \in DOMAIN fields |->
        [j \in DOMAIN fields[i] |-> LazyKernelArg(fields[i][j])]]

\* C6: the eager compile returns the function it was given.  When the operator
\* the lazy compile made of f has returned from a call on an input shaped
\* like input_like, its result has the fields and groups of f(x), and each
\* leaf has the content that the leaf of f(x) at the same position evaluates
\* to.
C6_CompiledEqualsFunction ==
    /\ (ret.op = "compile" /\ ret.ctx = EagerCtx) =>
          /\ ret.raised = "none"
          /\ ret.callable = [NoOperator EXCEPT !.kind = "function", !.f = ret.f]
    /\ (ret.op = "operator_call" /\ ret.raised = "none"
            /\ ShapeOf(ret.fields) = ret.callable.input_spec) =>
          LET expected == ApplyFunction(ret.f, ThawedFields(ret.fields))
          IN  /\ ShapeOf(ret.out) = ShapeOf(expected)
              /\ \A i \in DOMAIN expected : \A j \in DOMAIN expected[i] :
                    /\ IsCl(ret.out[i][j])
                    /\ ret.out[i][j].content = Eval(expected[i][j])
                    /\ ret.out[i][j].rank = expected[i][j].rank

\* an operator made of the function with two output fields has returned, from
\* an input of two fields with different contents, one a frozen array
C6_Witness ==
    /\ ret.op = "operator_call" /\ ret.raised = "none"
    /\ ret.f = "two_fields"
    /\ ShapeOf(ret.fields) = <<1, 1>>
    /\ ShapeOf(ret.out) = <<2, 1>>
    /\ IsFrozen(ret.fields[2][1])
    /\ ret.fields[1][1].content # ret.fields[2][1].content
    /\ ret.out[1][2].content # ret.out[2][1].content

\* ---------------------------------------------------------------- C7

\* the names both namespaces resolve to an elementwise function
SupportedNames ==
    {n \in NpNames : \A c \in Contexts : NpLookup(c, n).raised = "none"
                                         /\ n \notin ExplicitMethods(EagerCtx)}

\* the host array read back from the result of an np call of context ctx: in
\* the lazy context the result is frozen first
Readback(ctx, res) ==
    IF ctx = EagerCtx THEN EagerToNumpy(res).res ELSE LazyToNumpy(res, 0).res

\* the host array read back from np.<name> of an uploaded host array of the
\* given content in context ctx
HostResult(ctx, name, content, rank) ==
    LET l == NpLookup(ctx, name)
        program == ScalarFuncProgram(l.c_name, 1, rank)
    IN  IF ctx = EagerCtx
        THEN Readback(ctx, KernelOutput(program, EagerFromNumpy(content, rank).res, 0))
        ELSE Readback(ctx, LazyNpOutcome(l, program,
                                         LazyFromNumpy(content, rank).res, TRUE).res)

OtherCtx(ctx) == IF ctx = EagerCtx THEN LazyCtx ELSE EagerCtx

\* C7: when np.g(a) has returned in one context for a name g that both
\* namespaces support, the host array read back from its result (after freeze
\* in the lazy context) equals the one read back from np.g in the other
\* context applied to an array of the same content and shape.
C7_BackendsAgree ==
    (pc = "idle" /\ ret.name \in SupportedNames /\ ret.raised = "none") =>
        Readback(ret.ctx, ret.res)
            = HostResult(OtherCtx(ret.ctx), ret.name, Eval(ret.arg), ret.arg.rank)

\* the lazy exp, which does not go through a kernel, applied to a computed node
C7_Witness ==
    /\ ret.name = "exp" /\ ret.ctx = LazyCtx /\ ret.raised = "none"
    /\ Depth(ret.res) = 2
    /\ Readback(LazyCtx, ret.res).content # host

\* ---------------------------------------------------------------- C8

\* C8: no step changes or removes an entry of a kernel cache; a request
\* returns the entry of its key in the cache of its context, which for a key
\* requested before is the object stored by the first request; a request
\* leaves the cache of the other context as it was, and the object it returns
\* is no entry of the other context's cache.
C8_CacheIdentity ==
    [][ /\ \A c \in Contexts : \A k \in DOMAIN scalar_func_cache[c] :
              /\ k \in DOMAIN scalar_func_cache'[c]
              /\ scalar_func_cache'[c][k] = scalar_func_cache[c][k]
        /\ (ret' # ret /\ ret'.key # << >>) =>
              /\ ret'.key \in DOMAIN scalar_func_cache'[ret'.ctx]
              /\ ret'.prog = scalar_func_cache'[ret'.ctx][ret'.key]
              /\ \A d \in Contexts \ {ret'.ctx} :
                    /\ scalar_func_cache'[d] = scalar_func_cache[d]
                    /\ \A k \in DOMAIN scalar_func_cache'[d] :
                          scalar_func_cache'[d][k].obj # ret'.prog.obj
      ]_vars

\* a direct request got an object built before the newest one, while both
\* contexts hold an entry for that key
C8_Witness ==
    /\ ret.op = "get_program"
    /\ ret.prog.obj + 1 < next_obj
    /\ \A c \in Contexts : ret.key \in DOMAIN scalar_func_cache[c]

\* ---------------------------------------------------------------- C9

\* neither in the allow-list nor a method of the namespace of ctx
Unsupported(ctx, name) ==
    name \notin (numpy_math_functions \cup ExplicitMethods(ctx))

\* C9 as claimed: the lookup of an unsupported name fails with an error other
\* than AttributeError, and no kernel is built or dispatched for it.
C9_UnsupportedOperationError ==
    (ret.name # "none" /\ Unsupported(ret.ctx, ret.name)) =>
        /\ ret.raised \notin {"none", "AttributeError"}
        /\ ret.prog = NoProgram
        /\ ret.evt = 0

\* C9 amended: the lookup of an unsupported name raises AttributeError, and
\* the step builds no kernel, dispatches nothing and touches no wait-queue.
C9_UnsupportedNameRaises ==
    [][ (ret' # ret /\ ret'.name # "none" /\ Unsupported(ret'.ctx, ret'.name)) =>
            /\ ret'.raised = "AttributeError"
            /\ ret'.prog = NoProgram
            /\ UNCHANGED <<scalar_func_cache, next_obj, qvars, devvars>>
      ]_vars

\* an unimplemented name was refused by a context that has built kernels
C9_Witness ==
    /\ ret.name = "foo" /\ ret.raised = "AttributeError"
    /\ scalar_func_cache[ret.ctx] # EmptyDict

\* --------------------------------------------------------------- C10

\* C10: the lookup of a legacy short name warns of the deprecation and is
\* accepted: it does not raise AttributeError, and the call goes to the
\* kernel of that C name, which is the kernel of the numpy name.
C10_LegacyNameAccepted ==
    (ret.name \in DOMAIN c_to_numpy_arc_functions) =>
        /\ ret.warned
        /\ ret.raised # "AttributeError"
        /\ ret.raised = "none" =>
              ret.key = <<getattr(c_to_numpy_arc_functions[ret.name]).c_name,
                          1, ret.arg.rank>>

\* --------------------------------------------------------------- C11

\* C11: every call_loopy, of the eager or of the lazy context, with a kernel
\* built without return_dict or without no_numpy raises ValueError and
\* neither runs anything nor adds a node.
C11_KernelWithoutOptionsRefused ==
    (ret.op = "call_loopy" /\ ~OptionsOk(ret.prog)) =>
        /\ ret.raised = "ValueError"
        /\ ret.calls.run = 0
        /\ ret.res = NoArray

\* --------------------------------------------------------------- C12

\* C12: the lazy freeze of a placeholder raises ValueError, returns no array,
\* calls the graph lowering not once, runs nothing on the device and waits
\* for nothing.
C12_FreezePlaceholderFails ==
    /\ (ret.op = "freeze" /\ ret.ctx = LazyCtx /\ ret.arg.kind = "placeholder") =>
          /\ ret.raised = "ValueError"
          /\ ret.res = NoArray
          /\ ret.calls.lower = 0 /\ ret.calls.run = 0
          /\ ret.evt = 0 /\ ret.waited = {}
    /\ (pc = "wait" /\ cont.ret.op = "freeze") => cont.ret.arg.kind # "placeholder"

\* a placeholder was refused by a context whose device has run a program
\* before, and the caller still holds the placeholder
C12_Witness ==
    /\ ret.op = "freeze" /\ ret.ctx = LazyCtx /\ ret.arg.kind = "placeholder"
    /\ ret.raised = "ValueError"
    /\ arrays[1] = ret.arg
    /\ next_evt > 1

\* --------------------------------------------------------------- C13

\* C13: the lazy thaw of a concrete device array returns a data-wrapper of
\* the lazy namespace whose data is that array attached to the lazy queue;
\* the lazy thaw of anything else raises TypeError and returns no array.
C13_LazyThawConcreteOnly ==
    (ret.op = "thaw" /\ ret.ctx = LazyCtx) =>
        IF ret.arg.kind = "cl"
        THEN /\ ret.raised = "none"
             /\ ret.res.kind = "datawrapper"
             /\ ret.res.ns = LazyCtx
             /\ DataOf(ret.res) = [ret.arg EXCEPT !.queue = QueueOf(LazyCtx)]
        ELSE /\ ret.raised = "TypeError"
             /\ ret.res = NoArray

\* a computed node over a data-wrapper was refused
C13_Witness ==
    /\ ret.op = "thaw" /\ ret.ctx = LazyCtx
    /\ ret.arg.kind = "derived" /\ ret.arg.arg[1].kind = "datawrapper"
    /\ ret.raised = "TypeError"

\* --------------------------------------------------------------- C14

\* C14: empty and empty_like of the lazy context raise ValueError ("does not
\* support empty") for every shape and every array, return no array, register
\* nothing in the namespace and leave the caller's variable and the device
\* alone.
C14_LazyEmptyFails ==
    [][ (ret' # ret /\ ret'.op \in {"empty", "empty_like"}) =>
            /\ ret'.raised = "ValueError"
            /\ ret'.res = NoArray
            /\ ns' = ns
            /\ UNCHANGED <<arrays, devvars, ctlvars>>
      ]_vars

\* empty_like of a placeholder registered in the namespace was refused
C14_Witness ==
    /\ ret.op = "empty_like" /\ ret.raised = "ValueError"
    /\ ret.arg.kind = "placeholder" /\ ret.arg.name \in ns

\* --------------------------------------------------------------- C15

\* C15: a call of a compiled operator on a nested array whose number of
\* fields, or number of groups of a field, is not the one recorded at compile
\* time raises and does not run the lowered program.
C15_ArityMismatchFails ==
    /\ (ret.op = "operator_call" /\ ShapeOf(ret.fields) # ret.callable.input_spec) =>
          /\ ret.raised # "none"
          /\ ret.evt = 0
    /\ (pc = "wait" /\ cont.ret.op = "operator_call") =>
          ShapeOf(cont.ret.fields) = cont.ret.callable.input_spec

\* --------------------------------------------------------------- C16

\* C16: a thaw of a frozen array, in either context, returns an array of the
\* same content and events bound to the queue of the thawing context, enqueues
\* and waits for nothing, and leaves the caller's variable alone unless the
\* result is assigned to it; the frozen array given is the same value
\* afterwards, and a thaw of it in any context succeeds again.
C16_ThawLeavesArgument ==
    [][ (ret' # ret /\ ret'.op = "thaw" /\ IsFrozen(ret'.arg)) =>
            /\ ret'.raised = "none"
            /\ ret'.res.queue = QueueOf(ret'.ctx)
            /\ ret'.res.content = ret'.arg.content
            /\ ret'.res.events = ret'.arg.events
            /\ UNCHANGED <<devvars, ctlvars>>
            /\ ret'.dest = 0 => arrays' = arrays
            /\ \A s \in Slots : arrays'[s] \in {arrays[s], ret'.res}
            /\ \A c \in Contexts :
                  LET again == IF c = EagerCtx THEN EagerThaw(ret'.arg)
                               ELSE LazyThaw(ret'.arg)
                  IN  /\ again.raised = "none"
                      /\ again.res.queue = QueueOf(c)
                      /\ again.res.content = ret'.arg.content
      ]_vars

\* a frozen array that the eager context thawed before has been thawed by
\* the lazy context, and the caller still holds it frozen
C16_Witness ==
    /\ ret.op = "thaw" /\ ret.ctx = LazyCtx /\ ret.raised = "none"
    /\ ret.chain.stage = 2 /\ ret.chain.ctx = EagerCtx
    /\ ret.arg = ret.chain.first
    /\ ret.chain.last.queue = QueueOf(EagerCtx)
    /\ arrays[1] = ret.arg /\ IsFrozen(arrays[1])
    /\ ret.res.queue = QueueOf(LazyCtx)

\* --------------------------------------------------------------- C17

\* C17: in a context constructed with wait_event_queue_length=False, the
\* dict of wait-queues stays empty, no call_loopy ever blocks, and no
\* call_loopy has waited on an event.
C17_DisabledQueueNeverWaits ==
    wait_event_queue_length = PyFalse =>
        /\ kernel_name_to_wait_event_queue = EmptyDict
        /\ pc = "idle"
        /\ waiting_on = {}
        /\ ret.waited = {}

\* the disabled context has dispatched every event of the behaviour, and
\* more than the default bound of them are incomplete
C17_Witness ==
    /\ wait_event_queue_length = PyFalse
    /\ next_evt = MaxDispatch + 1
    /\ Len(inflight[QueueOf(EagerCtx)]) > DefaultWaitEventQueueLength
    /\ ret.op = "call_loopy" /\ ret.raised = "none"

\* --------------------------------------------------------------- C19

\* C19: an eager call_loopy that raises (the kernel refused, or the dispatch
\* failed) has called the kernel at most once, has returned no event and
\* waited on none; the step that raises leaves every wait-queue, the device
\* queues and the caller's variable as they were and does not block; and a
\* call that blocks is one whose dispatch succeeded.
C19_FailurePropagates ==
    /\ [](ret.calls.run <= 1)
    /\ []((ret.op = "call_loopy" /\ ret.raised # "none") =>
            /\ ret.evt = 0 /\ ret.waited = {} /\ ret.res = NoArray
            /\ ret.raised = "ValueError" => ret.calls.run = 0)
    /\ [](pc = "wait" => cont.ret.raised = "none")
    /\ [][ (pc = "idle" /\ pc' = "idle" /\ ret'.op = "call_loopy"
                /\ ret'.raised # "none") =>
              /\ kernel_name_to_wait_event_queue' = kernel_name_to_wait_event_queue
              /\ next_evt' = next_evt
              /\ \A q \in Queues : Len(inflight'[q]) <= Len(inflight[q])
              /\ arrays' = arrays
          ]_vars

\* a dispatch failed in a context in which the wait-queue of that kernel's
\* name is full
C19_Witness ==
    /\ ret.op = "call_loopy" /\ ret.raised = "DispatchError"
    /\ ret.calls.run = 1
    /\ wait_event_queue_length = MaxConfiguredLength
    /\ ret.prog.name \in DOMAIN kernel_name_to_wait_event_queue
    /\ Len(kernel_name_to_wait_event_queue[ret.prog.name]) = MaxConfiguredLength

\* --------------------------------------------------------------- C20

\* C20: a call_loopy that blocks waits on exactly one event, the head of the
\* wait-queue of its kernel's name after its own event was appended; what
\* stays in that queue are the later events in dispatch order, so the event
\* waited on was dispatched before each of them, and it is the call's own
\* event only when the bound is 0.  Every wait-queue holds its events in the
\* order of their dispatch.
C20_OldestWaitedFirst ==
    /\ [](\A n \in DOMAIN kernel_name_to_wait_event_queue :
            LET wq == kernel_name_to_wait_event_queue[n]
            IN  \A i, j \in DOMAIN wq : i < j => wq[i] < wq[j])
    /\ [][ (pc = "idle" /\ pc' = "wait") =>
              LET name == cont'.ret.prog.name
                  before == Append(DictGet(kernel_name_to_wait_event_queue, name,
                                           << >>), cont'.ret.evt)
                  after == DictGet(kernel_name_to_wait_event_queue', name, << >>)
              IN  /\ Len(before) > wait_event_queue_length
                  /\ waiting_on' = {Head(before)}
                  /\ cont'.ret.waited = waiting_on'
                  /\ after = Tail(before)
                  /\ \A i \in DOMAIN after : Head(before) < after[i]
                  /\ Head(before) = cont'.ret.evt => wait_event_queue_length = 0
          ]_vars

\* a call with bound 2 has returned after waiting on an event dispatched two
\* dispatches of its kernel name before its own, while events of another
\* kernel name dispatched earlier still are in their queue
C20_Witness ==
    /\ pc = "idle" /\ wait_event_queue_length = 2
    /\ ret.op = "call_loopy" /\ ret.waited # {}
    /\ \A e \in ret.waited : e < ret.evt - 2
    /\ \E n \in DOMAIN kernel_name_to_wait_event_queue :
          /\ n # ret.prog.name
          /\ \E i \in DOMAIN kernel_name_to_wait_event_queue[n] :
                \A e \in ret.waited : kernel_name_to_wait_event_queue[n][i] < e

\* --------------------------------------------------------------- C18

\* C18 as claimed: the only calls that wait on an event or on the device are
\* freeze, to_numpy and a call_loopy whose dispatch exceeded the bound.
C18_OnlyThreeBlock ==
    /\ ret.waited # {} => ret.op \in {"freeze", "to_numpy", "call_loopy"}
    /\ pc = "wait" => cont.ret.op \in {"freeze", "to_numpy", "call_loopy"}

\* C18 amended: a call that waits is a freeze, a to_numpy, an eager
\* call_loopy that made the wait-queue of its kernel's name exceed the bound,
\* a reduction of the eager np namespace, or a call of a compiled operator
\* (or an upload); the reduction and the operator call always wait on the
\* event of the work they enqueue.  Thaw, the lazy call_loopy and an eager
\* call_loopy that leaves its wait-queue below the bound never wait.
C18_BlockingOperations ==
    LET Waits(r) ==
            /\ r.op \in {"freeze", "to_numpy", "call_loopy", "np",
                          "operator_call", "from_numpy"}
            /\ r.op = "call_loopy" =>
                  /\ r.ctx = EagerCtx
                  /\ Len(DictGet(kernel_name_to_wait_event_queue, r.prog.name, << >>))
                        = wait_event_queue_length
            /\ r.op = "np" => (r.ctx = EagerCtx /\ r.name = "sum")
    IN  /\ ret.waited # {} => Waits(ret)
        /\ pc = "wait" => (cont.ret.waited = waiting_on /\ Waits(cont.ret))
        /\ (ret.op = "operator_call" /\ ret.raised = "none") => ret.waited = {ret.evt}
        /\ (ret.op = "np" /\ ret.ctx = EagerCtx /\ ret.raised = "none") =>
              ret.evt \in ret.waited
        /\ (ret.op = "thaw" \/ (ret.op = "call_loopy" /\ ret.ctx = LazyCtx)) =>
              (ret.waited = {} /\ ret.evt = 0)

\* a compiled operator has returned after waiting for its program, in a
\* behaviour in which an eager dispatch within the bound did not wait
C18_Witness ==
    /\ pc = "idle"
    /\ ret.op = "operator_call" /\ ret.raised = "none" /\ ret.waited = {ret.evt}
    /\ ret.evt = 2
    /\ \E n \in DOMAIN kernel_name_to_wait_event_queue :
          kernel_name_to_wait_event_queue[n] = <<1>>

\* --------------------------------------------------------------- C21

\* C21: a step that dispatches a kernel of name K changes the wait-queue of
\* no other name, puts its event into the queue of K only, and waits on
\* nothing but its own event or an event taken from the queue of K; a step
\* that dispatches nothing changes no wait-queue; and no event is in the
\* queues of two names, so the event waited on was dispatched under K.
C21_OtherQueuesUntouched ==
    /\ [](\A n, m \in DOMAIN kernel_name_to_wait_event_queue :
            n # m => Range(kernel_name_to_wait_event_queue[n])
                        \cap Range(kernel_name_to_wait_event_queue[m]) = {})
    /\ [][ LET call == IF pc' = "wait" THEN cont'.ret ELSE ret'
               K == call.prog.name
               names == DOMAIN kernel_name_to_wait_event_queue
                          \cup DOMAIN kernel_name_to_wait_event_queue'
               before(n) == DictGet(kernel_name_to_wait_event_queue, n, << >>)
               after(n) == DictGet(kernel_name_to_wait_event_queue', n, << >>)
           IN  IF next_evt' = next_evt
               THEN kernel_name_to_wait_event_queue' = kernel_name_to_wait_event_queue
               ELSE /\ call.evt = next_evt
                    /\ \A n \in names \ {K} : after(n) = before(n)
                    /\ call.waited \subseteq Range(before(K)) \cup {call.evt}
                    /\ \A n \in names \ {K} : call.waited \cap Range(before(n)) = {}
         ]_vars

\* a call with bound 1 has waited on the earlier event of its own name while
\* the queue of the other name is full with an event dispatched earlier still
C21_Witness ==
    /\ pc = "idle" /\ wait_event_queue_length = 1
    /\ ret.op = "call_loopy" /\ ret.waited # {}
    /\ \E n \in DOMAIN kernel_name_to_wait_event_queue :
          /\ n # ret.prog.name
          /\ Len(kernel_name_to_wait_event_queue[n]) = 1
          /\ \A e \in ret.waited : kernel_name_to_wait_event_queue[n][1] < e

\* --------------------------------------------------------------- C22

\* C22: a lazy compile that returns has called f once and the lowering once
\* and has run nothing; every invocation of the operator it returned, the
\* first and the later ones alike, calls neither f nor the lowering, leaves
\* the operator, the namespace and the kernel cache as they are, enqueues the
\* lowered program once and waits on the event of exactly that run; and when
\* an invocation has returned, that event is complete.
C22_CompileOnceRunPerCall ==
    /\ []((ret.op = "compile" /\ ret.ctx = LazyCtx /\ ret.raised = "none")
            => ret.calls = [f |-> 1, lower |-> 1, run |-> 0] /\ ret.evt = 0)
    /\ []((ret.op = "operator_call" /\ ret.raised = "none")
            => /\ ret.calls = [f |-> 0, lower |-> 0, run |-> 1]
               /\ ret.waited = {ret.evt}
               /\ Complete(ret.evt))
    /\ [][ (pc = "idle" /\ pc' = "wait" /\ cont'.ret.op = "operator_call")
             => /\ cont'.ret.calls = [f |-> 0, lower |-> 0, run |-> 1]
                /\ cont'.ret.evt = next_evt /\ next_evt' = next_evt + 1
                /\ waiting_on' = {next_evt}
                /\ inflight'[QueueOf(LazyCtx)]
                      = Append(inflight[QueueOf(LazyCtx)], next_evt)
                /\ UNCHANGED <<operator, ns, scalar_func_cache, next_obj>>
         ]_vars

\* the second invocation of an operator has returned
C22_Witness ==
    /\ pc = "idle" /\ ret.op = "operator_call" /\ ret.raised = "none"
    /\ ret.evt = 2 /\ ret.callable.f = "exp_sin"

\* --------------------------------------------------------------- C23

\* C23: the operator a lazy compile returns has as output_spec the group
\* counts of the fields f returned for the placeholders, and its program has
\* exactly one output per leaf, output _msh_out_i_j being leaf (i, j) of what
\* f returned; the result of an invocation has len(output_spec) fields, field
\* i has output_spec[i] leaves, and leaf (i, j) is the concrete array the
\* program computed for _msh_out_i_j from the named inputs.
C23_ResultFollowsOutputSpec ==
    /\ (ret.op = "compile" /\ ret.ctx = LazyCtx /\ ret.raised = "none")
         => LET outputs == ApplyFunction(ret.f,
                               make_placeholder_like(ret.callable.input_spec))
                spec == ret.callable.output_spec
            IN  /\ spec = [i \in DOMAIN outputs |-> Len(outputs[i])]
                /\ DOMAIN ret.callable.pytato_program
                      = {OutputName(p[1] - 1, p[2] - 1) : p \in Positions(spec)}
                /\ \A p \in Positions(spec) :
                      ret.callable.pytato_program[OutputName(p[1] - 1, p[2] - 1)]
                        = outputs[p[1]][p[2]]
    /\ (ret.op = "operator_call" /\ ret.raised = "none")
         => LET spec == ret.callable.output_spec
                program == ret.callable.pytato_program
                d == from_obj_array_to_input_dict(ret.callable.input_spec,
                                                  ret.fields)
                env == [n \in DOMAIN d.dict |-> d.dict[n].content]
            IN  /\ Len(ret.out) = Len(spec)
                /\ \A i \in 1 .. Len(spec) : Len(ret.out[i]) = spec[i]
                /\ \A p \in Positions(spec) :
                      LET node == program[OutputName(p[1] - 1, p[2] - 1)]
                      IN  ret.out[p[1]][p[2]]
                            = ClArray(QueueOf(LazyCtx), Exec(node, env),
                                      {ret.evt}, node.rank)

\* an operator traced from a function of one field of two groups that returns
\* a field of three groups and a field of one group has returned
C23_Witness ==
    /\ pc = "idle" /\ ret.op = "operator_call" /\ ret.raised = "none"
    /\ ret.callable.input_spec = <<2>>
    /\ ret.callable.output_spec = <<3, 1>>
    /\ ShapeOf(ret.fields) = <<2>>
    /\ ret.fields[1][1].content # ret.fields[1][2].content

\* --------------------------------------------------------------- C24

\* C24: the lazy freeze of a data-wrapper or of a concrete array returns the
\* detached data without calling the graph lowering, running anything on the
\* device or waiting; the lazy freeze of a computed node that returns has
\* called the lowering once, run the program once and waited for it.
C24_FreezeLowersByKind ==
    (ret.op = "freeze" /\ ret.ctx = LazyCtx) =>
        /\ ret.arg.kind \in {"datawrapper", "cl"} =>
              /\ ret.raised = "none"
              /\ ret.res = [DataOf(ret.arg) EXCEPT !.queue = NoQueue]
              /\ ret.calls.lower = 0 /\ ret.calls.run = 0
              /\ ret.evt = 0 /\ ret.waited = {}
        /\ (ret.arg.kind = "derived" /\ ret.raised = "none") =>
              /\ ret.calls.lower = 1 /\ ret.calls.run = 1
              /\ ret.waited = {ret.evt}
              /\ IsFrozen(ret.res)

\* --------------------------------------------------------------- C25

\* C25: the lazy call_loopy returns a new node of the lazy namespace that
\* applies the kernel to its argument, the argument being a data-wrapper of
\* the lazy namespace around the array attached to the lazy queue when a
\* frozen array was given, and the given node itself when a placeholder, a
\* data-wrapper or a computed node was given; the call lowers nothing, runs
\* nothing on a device,
\* waits on nothing, and changes neither the device queues, the wait-queues
\* nor the control state.
C25_LazyCallOnlyAddsNodes ==
    /\ []((ret.op = "call_loopy" /\ ret.ctx = LazyCtx) =>
            /\ ret.raised = "none"
            /\ ret.res = Derived(LazyCtx, ret.prog.c_name,
                     IF IsFrozen(ret.arg)
                     THEN DataWrapper(LazyCtx,
                              [ret.arg EXCEPT !.queue = QueueOf(LazyCtx)])
                     ELSE ret.arg)
            /\ ret.calls = [f |-> 0, lower |-> 0, run |-> 0]
            /\ ret.evt = 0 /\ ret.waited = {})
    /\ []((pc = "wait") => ~(cont.ret.op = "call_loopy" /\ cont.ret.ctx = LazyCtx))
    /\ [][ (ret' # ret /\ ret'.op = "call_loopy" /\ ret'.ctx = LazyCtx)
             => /\ pc = "idle"
                /\ UNCHANGED <<qvars, devvars, ctlvars, ctxvars>>
         ]_vars

\* the lazy call has been given a frozen array while the device was still
\* running an earlier program, and a placeholder before that
C25_Witness ==
    /\ ret.op = "call_loopy" /\ ret.ctx = LazyCtx /\ IsFrozen(ret.arg)
    /\ inflight[QueueOf(LazyCtx)] # << >>
    /\ ns # {}

\* --------------------------------------------------------------- C26

\* C26 as stated: when an invocation raises TypeError, what the error holds
\* singles out the offending leaf among the leaves the operator reads.
C26_ErrorNamesArgument ==
    (ret.op = "operator_call" /\ ret.raised = "TypeError") =>
        LET read == {p \in Positions(ret.callable.input_spec) :
                        LeafError(ret.fields, p) # "IndexError"}
        IN  \E p \in read :
               {q \in read : ret.fields[q[1]][q[2]].kind = ret.got} = {p}

\* C26: an invocation that raises TypeError has met, among the leaves the
\* operator reads, one that is neither a data-wrapper nor a concrete array,
\* the error holds the type of that leaf, and nothing was run or waited for;
\* an invocation that runs the program has read only data-wrappers and
\* concrete arrays, and the operator of the identity returns at (i, j) the
\* content of input leaf (i, j), the data of the wrapper or the array itself
\* having been bound to _msh_inp_i_j.
C26_LeafTypes ==
    LET read == {p \in Positions(ret.callable.input_spec) :
                    LeafError(ret.fields, p) # "IndexError"}
        accepted(p) == ret.fields[p[1]][p[2]].kind \in {"datawrapper", "cl"}
    IN  /\ (ret.op = "operator_call" /\ ret.raised = "TypeError") =>
              /\ \E p \in read : /\ ~accepted(p)
                                 /\ ret.got = ret.fields[p[1]][p[2]].kind
              /\ ret.evt = 0 /\ ret.waited = {} /\ ret.calls.run = 0
              /\ ret.out = << >>
        /\ (ret.op = "operator_call" /\ ret.raised = "none") =>
              /\ read = Positions(ret.callable.input_spec)
              /\ \A p \in read : accepted(p)
              /\ ret.callable.f = "identity" =>
                    \A p \in read :
                       ret.out[p[1]][p[2]].content = ret.fields[p[1]][p[2]].content
        /\ (pc = "wait" /\ cont.ret.op = "operator_call") =>
              \A p \in Positions(cont.ret.callable.input_spec) :
                 cont.ret.fields[p[1]][p[2]].kind \in {"datawrapper", "cl"}

\* an operator of two input leaves was given a data-wrapper and then a host
\* array, and raised TypeError after an earlier invocation had run
C26_Witness ==
    /\ ret.op = "operator_call" /\ ret.raised = "TypeError"
    /\ ret.callable.input_spec = <<2>>
    /\ ShapeOf(ret.fields) = <<2>>
    /\ ret.fields[1][1].kind = "datawrapper"
    /\ ret.fields[1][2].kind = "numpy"
    /\ next_evt > 1

\* --------------------------------------------------------------- C27

C28_CachedKernelUntouched ==
    /\ [](\A key \in DOMAIN scalar_func_cache[EagerCtx] :
            scalar_func_cache[EagerCtx][key]
              = [ScalarFuncProgram(key[1], key[2], key[3]) EXCEPT
                    !.obj = scalar_func_cache[EagerCtx][key].obj])
    /\ [](ret.op = "get_program" =>
            /\ ret.prog.tags = << >> /\ ret.prog.split = << >>
            /\ ret.prog = scalar_func_cache[ret.ctx][ret.key])
    /\ []((ret.op = "call_loopy" /\ ret.ctx = EagerCtx /\ ret.raised # "ValueError")
            => /\ ret.prog \in DOMAIN transform_cache
               /\ transform_cache[ret.prog] = TileProgram(ret.prog))
    /\ [][ /\ \A p \in DOMAIN transform_cache :
                 /\ p \in DOMAIN transform_cache'
                 /\ transform_cache'[p] = transform_cache[p]
           /\ \A key \in DOMAIN scalar_func_cache[EagerCtx] :
                 /\ key \in DOMAIN scalar_func_cache'[EagerCtx]
                 /\ scalar_func_cache'[EagerCtx][key]
                      = scalar_func_cache[EagerCtx][key]
           /\ \A p \in DOMAIN transform_cache' \ DOMAIN transform_cache :
                 /\ ret'.op = "call_loopy" /\ ret'.prog = p
         ]_vars

\* a cache request has returned the kernel of np.sin after that kernel was
\* dispatched twice, its tiled form being in the memo
C28_Witness ==
    /\ ret.op = "get_program" /\ ret.ctx = EagerCtx
    /\ ret.prog \in DOMAIN transform_cache
    /\ transform_cache[ret.prog] # ret.prog
    /\ DOMAIN scalar_func_cache[EagerCtx] = {ret.key}
    /\ Len(DictGet(kernel_name_to_wait_event_queue, ret.prog.name, << >>)) = 2

\* --------------------------------------------------------------- C29

\* C29: an eager call_loopy of a kernel that has the required options and
\* neither an iname iel nor an iname i0 is not refused by the transform: it
\* ends without an exception, its event recorded, unless the device refuses
\* the dispatch; and the program the transform returns for such a kernel, the
\* one dispatched and kept in the memo, is the kernel itself.
C29_UntiledKernelDispatched ==
    /\ \A p \in DOMAIN transform_cache :
          (<<"iel">> \notin p.inames /\ IName(0) \notin p.inames)
             => transform_cache[p] = p
    /\ (/\ ret.op = "call_loopy" /\ ret.ctx = EagerCtx /\ OptionsOk(ret.prog)
        /\ <<"iel">> \notin ret.prog.inames /\ IName(0) \notin ret.prog.inames)
         => /\ ret.raised \in {"none", "DispatchError"}
            /\ ret.prog \in DOMAIN transform_cache
            /\ ret.raised = "none" =>
                  /\ ret.evt > 0
                  /\ ret.evt \in Range(kernel_name_to_wait_event_queue[ret.prog.name])

\* the kernel over k alone was dispatched and its event recorded, after a
\* kernel that is tiled
C29_Witness ==
    /\ ret.op = "call_loopy" /\ ret.prog = FlatKernel /\ ret.raised = "none"
    /\ ret.evt = 2
    /\ \E p \in DOMAIN transform_cache : transform_cache[p] # p

\* --------------------------------------------------------------- C30

\* C30: with a device that completes every event, a call that blocks (an
\* eager call_loopy over its bound, a freeze, an invocation of a compiled
\* operator) returns in the end; and as long as an
\* event a blocked call waits on is incomplete, the call stays blocked and
\* the only thing that changes is the device working off its queues.
C30_WaitsUntilComplete ==
    /\ (pc = "wait") ~> (pc = "idle")
    /\ [][ (pc = "wait" /\ \E evt \in waiting_on : ~Complete(evt))
             => /\ pc' = "wait"
                /\ UNCHANGED <<qvars, next_evt, waiting_on, cont, ret, arrays,
                               ctxvars>>
         ]_vars

\* an invocation of a compiled operator is blocked on the event of its
\* program, which is incomplete, while the eager device still has work
C30_Witness ==
    /\ pc = "wait" /\ cont.ret.op = "operator_call"
    /\ waiting_on = {cont.ret.evt}
    /\ ~Complete(cont.ret.evt)
    /\ inflight[QueueOf(EagerCtx)] # << >>

\* --------------------------------------------------------------- C31

\* C31 as stated, the part about the other operations: a freeze, thaw,
\* to_numpy or from_numpy never waits on an event that is in a wait-queue.
C31_OthersWaitOnNoToken ==
    (pc = "wait" /\ cont.ret.op \in {"freeze", "thaw", "to_numpy", "from_numpy"})
        => waiting_on \cap UNION {Range(kernel_name_to_wait_event_queue[n]) :
                                   n \in DOMAIN kernel_name_to_wait_event_queue} = {}

\* C31: no event is twice in the wait-queues; the events in them were
\* dispatched; a dispatch adds its event to the queued ones and takes out
\* exactly what the call waits on, at most one event, so that an event is
\* queued or was waited on by call_loopy, never both and never neither; and
\* freeze, thaw, to_numpy and from_numpy leave every wait-queue as it is
\* (freeze and to_numpy may wait for an event that stays queued).
C31_TokensAccounted ==
    /\ [](LET queues == kernel_name_to_wait_event_queue
              queued == UNION {Range(queues[n]) : n \in DOMAIN queues}
          IN  /\ DOMAIN queues \subseteq {SinRank1.name, ElDofKernel.name}
              /\ Cardinality(queued)
                   = Len(DictGet(queues, SinRank1.name, << >>))
                       + Len(DictGet(queues, ElDofKernel.name, << >>))
              /\ \A e \in queued : e < next_evt
              /\ (ret.op = "call_loopy" /\ ret.raised = "none") =>
                    /\ ret.waited \cap queued = {}
                    /\ Cardinality(ret.waited) <= 1)
    /\ [][ LET call == IF pc' = "wait" THEN cont'.ret ELSE ret'
               before == UNION {Range(kernel_name_to_wait_event_queue[n]) :
                                n \in DOMAIN kernel_name_to_wait_event_queue}
               after == UNION {Range(kernel_name_to_wait_event_queue'[n]) :
                               n \in DOMAIN kernel_name_to_wait_event_queue'}
           IN  IF next_evt' = next_evt
               THEN kernel_name_to_wait_event_queue'
                      = kernel_name_to_wait_event_queue
               ELSE /\ call.op = "call_loopy" /\ call.evt = next_evt
                    /\ call.waited \subseteq before \cup {call.evt}
                    /\ after = (before \cup {call.evt}) \ call.waited
                    /\ call.evt \in
                         Range(kernel_name_to_wait_event_queue'[call.prog.name])
                           \cup call.waited
         ]_vars

\* a freeze has waited for the event of the array's kernel, which is still
\* queued, after call_loopy had waited on an older event of that name
C31_Witness ==
    /\ pc = "idle" /\ ret.op = "freeze" /\ ret.waited # {}
    /\ \E n \in DOMAIN kernel_name_to_wait_event_queue :
          /\ ret.waited \subseteq Range(kernel_name_to_wait_event_queue[n])
          /\ \A e \in ret.waited : e > 1
          /\ Len(kernel_name_to_wait_event_queue[n]) = 1

\* --------------------------------------------------------------- C32

\* C32: the kernels the cache holds under different keys are different
\* kernels, and those of one function have the one name actx_special_<function>;
\* the dispatch of any of them appends its event to the one wait-queue of
\* that name and, when that queue already holds as many events as the bound,
\* waits on its oldest event, whichever of the kernels dispatched it.
C32_QueuesKeyedByName ==
    /\ [](\A k1, k2 \in DOMAIN scalar_func_cache[EagerCtx] :
            k1 # k2 =>
               /\ scalar_func_cache[EagerCtx][k1] # scalar_func_cache[EagerCtx][k2]
               /\ k1[1] = k2[1] =>
                     /\ scalar_func_cache[EagerCtx][k1].name = <<"actx_special_", k1[1]>>
                     /\ scalar_func_cache[EagerCtx][k2].name = <<"actx_special_", k1[1]>>)
    /\ [][ LET call == IF pc' = "wait" THEN cont'.ret ELSE ret'
               name == <<"actx_special_", call.key[1]>>
               before == DictGet(kernel_name_to_wait_event_queue, name, << >>)
           IN  (next_evt' # next_evt /\ call.key # << >>) =>
                  /\ call.prog = scalar_func_cache'[EagerCtx][call.key]
                  /\ IF Len(before) < wait_event_queue_length
                     THEN /\ DictGet(kernel_name_to_wait_event_queue', name, << >>)
                               = Append(before, next_evt)
                          /\ call.waited = {}
                     ELSE /\ DictGet(kernel_name_to_wait_event_queue', name, << >>)
                               = Tail(Append(before, next_evt))
                          /\ call.waited = {Head(Append(before, next_evt))}
         ]_vars

\* after exactly two dispatches, one of the kernel of rank 1 and one of the
\* kernel of rank 2, the second has waited on the event of the first
C32_Witness ==
    /\ pc = "idle" /\ next_evt = 3
    /\ ret.op = "call_loopy" /\ ret.key # << >> /\ ret.waited = {1}
    /\ DOMAIN scalar_func_cache[EagerCtx] = {<<"sin", 1, 1>>, <<"sin", 1, 2>>}
    /\ \A k \in DOMAIN scalar_func_cache[EagerCtx] :
          scalar_func_cache[EagerCtx][k] \in DOMAIN transform_cache

\* --------------------------------------------------------------- C33

\* C33: in a context of bound 0 a call_loopy that dispatched its kernel keeps
\* a wait-queue for the kernel's name, waits on the event of its own dispatch
\* and on nothing else, and has returned only with that event complete;
\* every wait-queue is empty whenever the context is not inside a call, and
\* while a call is blocked too.
C33_BoundZeroSynchronous ==
    wait_event_queue_length = 0 =>
        /\ \A n \in DOMAIN kernel_name_to_wait_event_queue :
              kernel_name_to_wait_event_queue[n] = << >>
        /\ (ret.op = "call_loopy" /\ ret.raised = "none") =>
              /\ ret.evt > 0 /\ ret.waited = {ret.evt}
              /\ Complete(ret.evt)
              /\ ret.prog.name \in DOMAIN kernel_name_to_wait_event_queue
        /\ pc = "wait" =>
              /\ cont.ret.op = "call_loopy"
              /\ waiting_on = {cont.ret.evt}
              /\ cont.ret.evt = next_evt - 1
        /\ inflight[QueueOf(EagerCtx)] # << >> => pc = "wait"

\* the third dispatch of a context of bound 0 has returned, kernels of both
\* names having been dispatched
C33_Witness ==
    /\ wait_event_queue_length = 0 /\ pc = "idle"
    /\ ret.op = "call_loopy" /\ ret.raised = "none" /\ ret.evt = 3
    /\ Cardinality(DOMAIN kernel_name_to_wait_event_queue) = 2

\* --------------------------------------------------------------- C34

\* C34: a compile of the lazy context returns an operator whenever it is
\* called, however many compiles the context has done before: the names of
\* its placeholders are not taken, and are registered afterwards.
C34_CompileRepeatable ==
    (ret.op = "compile" /\ ret.ctx = LazyCtx) =>
        /\ ret.raised = "none"
        /\ ret.callable.kind = "PytatoCompiledOperator"
        /\ LeafNames(make_placeholder_like(ret.callable.input_spec)) \subseteq ns

\* --------------------------------------------------------------- C37

\* C37: for every kernel the transform has tiled, the outer iname is iel
\* when the kernel has an iname iel, with inner iname idof if there is one,
\* and else i0 when it has an iname i0, with inner iname i1 if there is one;
\* the tiled kernel has the outer iname tagged g.0; with an inner iname it
\* has that iname split by 16 into an outer and an inner part, the inner
\* part tagged l.0, and no other tag; without one it has the inames of the
\* kernel, no split and no other tag.
C37_TilingChoice ==
    \A p \in DOMAIN transform_cache :
        LET t == transform_cache[p]
            has(iname) == iname \in p.inames
            outer == IF has(<<"iel">>) THEN <<"iel">> ELSE IName(0)
            inner == IF has(<<"iel">>) THEN <<"idof">> ELSE IName(1)
        IN  (has(<<"iel">>) \/ has(IName(0))) =>
                IF has(inner)
                THEN /\ t.split = [iname |-> inner, length |-> InnerSplitLength]
                     /\ t.inames = (p.inames \ {inner})
                                      \cup {inner \o <<"inner">>, inner \o <<"outer">>}
                     /\ DOMAIN t.tags = {outer, inner \o <<"inner">>}
                     /\ t.tags[outer] = "g.0"
                     /\ t.tags[inner \o <<"inner">>] = "l.0"
                     /\ t = [p EXCEPT !.split = t.split, !.inames = t.inames,
                                      !.tags = t.tags]
                ELSE /\ DOMAIN t.tags = {outer}
                     /\ t.tags[outer] = "g.0"
                     /\ t = [p EXCEPT !.tags = t.tags]

\* the transform has tiled a kernel over iel, idof, i0 and i1, a kernel over
\* iel alone, and the kernel of np.sin of rank 2
C37_Witness ==
    /\ \E p \in DOMAIN transform_cache :
          p.inames = {<<"iel">>, <<"idof">>, IName(0), IName(1)}
    /\ \E p \in DOMAIN transform_cache : p.inames = {<<"iel">>}
    /\ \E p \in DOMAIN transform_cache : p.inames = {IName(0), IName(1)}


\* --------------------------------------------------------------- C35

\* C35: write_vtk_file does not modify the memoized node coordinates: the
\* memo of _vis_nodes is empty or holds the unshrunk nodes of the
\* discretization, and every file write_vtk_file wrote holds these nodes
\* shrunk once by the element shrink factor (unchanged when the factor is 1),
\* however many calls came before.
C35_ShrinkAppliedOnce ==
    LET factor == visualizer.element_shrink_factor
        once == IF factor # 2 THEN ShrinkElements(VisDiscrNodes, factor)
                ELSE VisDiscrNodes
    IN  /\ visualizer.vis_nodes \in {NotComputed, VisDiscrNodes}
        /\ \A f \in DOMAIN files : files[f].kind = "vtk" => files[f].points = once

\* --------------------------------------------------------------- C36

\* C36: a call of write_vtk_file or write_nodal_adjacency_vtk_file changes no
\* file but its target; a call that raises changes no file at all; when the
\* target exists and overwrite is false the call raises (FileExistsError, or
\* the NotImplementedError write_vtk_file raises before it looks at the file)
\* and the file system stays as it was; a call that returns leaves in the
\* target exactly the grid it built, of its own kind, nothing of an older file.
C36_NoReplaceUnlessOverwrite ==
    [][\A file_name \in FileNames, overwrite \in BOOLEAN :
          (\/ \E field \in [kind : {"dofarray", "number"}, data : Values] :
                 WriteVtkFile(file_name, field, overwrite)
           \/ WriteNodalAdjacencyVtkFile(file_name, overwrite))
          => /\ DOMAIN files' \subseteq (DOMAIN files) \cup {file_name}
             /\ \A f \in (DOMAIN files) \ {file_name} :
                   f \in DOMAIN files' /\ files'[f] = files[f]
             /\ ret'.raised # "none" => files' = files
             /\ (file_name \in DOMAIN files /\ ~overwrite)
                   => /\ files' = files
                      /\ \/ ret'.raised = "FileExistsError"
                         \/ /\ ret'.raised = "NotImplementedError"
                            /\ ret'.op = "write_vtk_file"
                      /\ ret'.op = "write_nodal_adjacency_vtk_file"
                            => ret'.raised = "FileExistsError"
             /\ ret'.raised = "none"
                   => /\ file_name \in DOMAIN files'
                      /\ files'[file_name].points = ret'.out
                      /\ files'[file_name].kind =
                            (IF ret'.op = "write_vtk_file" THEN "vtk" ELSE "adjacency")
      ]_vars

\* the adjacency writer refused to replace the file write_vtk_file had written
\* before, which is still there
C36_Witness ==
    /\ ret.op = "write_nodal_adjacency_vtk_file"
    /\ ret.raised = "FileExistsError"
    /\ ret.name \in DOMAIN files
    /\ files[ret.name].kind = "vtk"

============================================================================
